---- MODULE Spec2Model ----
(***************************************************************************)
(* Model of the KILT 1:1 messaging core (src/src/messaging/Message.ts):    *)
(* Message construction, encrypt(), ensureHashAndSignature,                *)
(* ensureOwnerIsSender and decrypt().                                      *)
(*                                                                         *)
(* Strings that are concatenated and hashed (ciphertext, nonce, the        *)
(* decimal form of createdAt) are sequences of "bytes"; a byte is a record *)
(* so that bytes of different sorts can be compared.  The collaborators    *)
(* that are not part of Message.ts (Identity, Crypto, validateSignature)   *)
(* are ideal: the digest is collision free, a box opens only under the     *)
(* nonce and the key pair it was sealed with, a signature verifies only    *)
(* for the data and the key it was made with, nonces are fresh.            *)
(***************************************************************************)
EXTENDS Integers, Sequences, FiniteSets, TLC

VARIABLES
    msgs,     \* the Message objects constructed so far, in order
    now,      \* the last value read from Date.now()
    rnd,      \* number of nonces drawn from the random source
    env,      \* the IEncryptedMessage on the wire, or NoEnvelope
    orig,     \* how env was produced, and env as it was produced
    res,      \* the last step, its arguments and its outcome
    didcomm,  \* the module-level DIDComm instance and its readiness promise
    tasks,    \* the asynchronous calls: position, captured locals, outcome
    packed,   \* the packed secure-channel message on the wire, or NoEnvelope
    uuids,    \* number of identifiers uuid() has minted
    chain     \* the Blockchain object: accountNonces and the calls it queued

vars == <<msgs, now, rnd, env, orig, res, didcomm, tasks, packed, uuids, chain>>

\* the state of the 1:1 messaging core
mvars == <<msgs, now, rnd, env, orig, res>>

\* the state of the secure-channel adapter and of the Blockchain object
dvars == <<didcomm, tasks, packed, uuids, chain>>

----------------------------------------------------------------------------
(* Bounds *)

MaxMessages == 2    \* Message objects alive in a multi-message run
MaxClaims   == 2    \* length of a SUBMIT_CLAIMS_FOR_CTYPES_CLASSIC list
MaxCraft    == 1    \* envelopes a peer builds with the crypto library directly

MaxTicks    == 1    \* Date.now() advances this many times

MaxCalls    == 2    \* slots of asynchronous calls

MaxUuids    == 2    \* identifiers uuid() mints in a run

MaxNonceCalls == 4  \* calls of getNonce in a run

MaxNonce    == 1    \* the highest nonce stored for an account at first

MaxIdLen    == 2    \* characters of a DID identifier

MaxChildren == 3    \* child records fetched for a node

----------------------------------------------------------------------------
(* Identities (Identity / IPublicIdentity) *)

Ids == {"alice", "bob"}

Address(id) == "5" \o id

Addresses == {Address(id) : id \in Ids}

SignPublicKey(id) == [spk |-> id]

getBoxPublicKey(id) == [bpk |-> id]

MalformedKey == [bad |-> "0xzz"]

MissingKey == [undefined |-> TRUE]

PublicIdentity(id) == [address |-> Address(id), boxPublicKeyAsHex |-> getBoxPublicKey(id)]

BadPublicIdentities ==
    {[address |-> Address(id), boxPublicKeyAsHex |-> k] : id \in Ids, k \in {MalformedKey, MissingKey}}

PublicIdentities == {PublicIdentity(id) : id \in Ids} \cup BadPublicIdentities

IsBoxPublicKey(k) == \E id \in Ids : k = getBoxPublicKey(id)

----------------------------------------------------------------------------
(* Bytes and strings *)

Lit(s) == [lit |-> s]

Digit(d) == [d |-> d]

RECURSIVE NumToStr(_)
NumToStr(n) == IF n < 10 THEN <<Digit(n)>> ELSE NumToStr(n \div 10) \o <<Digit(n % 10)>>

RECURSIVE StrToNum(_)
StrToNum(s) == IF Len(s) = 0 THEN 0 ELSE 10 * StrToNum(SubSeq(s, 1, Len(s) - 1)) + s[Len(s)].d

NoId == "<undefined>"

NoTime == -1

----------------------------------------------------------------------------
(* MessageBodyType and message bodies *)

MessageBodyType ==
    [ REQUEST_TERMS                    |-> "request-terms",
      SUBMIT_TERMS                     |-> "submit-terms",
      REJECT_TERMS                     |-> "reject-terms",
      INITIATE_ATTESTATION             |-> "initiate-attestation",
      REQUEST_ATTESTATION_FOR_CLAIM    |-> "request-attestation-for-claim",
      SUBMIT_ATTESTATION_FOR_CLAIM     |-> "submit-attestation-for-claim",
      REJECT_ATTESTATION_FOR_CLAIM     |-> "reject-attestation-for-claim",
      REQUEST_CLAIMS_FOR_CTYPES        |-> "request-claims-for-ctypes",
      SUBMIT_CLAIMS_FOR_CTYPES_CLASSIC |-> "submit-claims-for-ctypes-classic",
      SUBMIT_CLAIMS_FOR_CTYPES_PE      |-> "submit-claims-for-ctypes-pe",
      ACCEPT_CLAIMS_FOR_CTYPES         |-> "accept-claims-for-ctypes",
      REJECT_CLAIMS_FOR_CTYPES         |-> "reject-claims-for-ctypes",
      REQUEST_ACCEPT_DELEGATION        |-> "request-accept-delegation",
      SUBMIT_ACCEPT_DELEGATION         |-> "submit-accept-delegation",
      REJECT_ACCEPT_DELEGATION         |-> "reject-accept-delegation",
      INFORM_CREATE_DELEGATION         |-> "inform-create-delegation" ]

MessageBodyTypes == {MessageBodyType[k] : k \in DOMAIN MessageBodyType}

OwnerCheckedTypes ==
    { MessageBodyType.REQUEST_ATTESTATION_FOR_CLAIM,
      MessageBodyType.SUBMIT_ATTESTATION_FOR_CLAIM,
      MessageBodyType.SUBMIT_CLAIMS_FOR_CTYPES_CLASSIC }

OtherTypes == MessageBodyTypes \ OwnerCheckedTypes

\* content of the kinds that carry no owner (IRequestTerms: a partial claim)
PlainContent == [cTypeHash |-> "0xabc"]

\* IRequestAttestationForClaim.content
RequestContent(owner) == [requestForAttestation |-> [claim |-> [owner |-> owner]]]

\* ISubmitAttestationForClaim.content
AttestationContent(owner) == [attestation |-> [owner |-> owner]]

\* one IAttestedClaim of ISubmitClaimsForCTypesClassic.content
AttestedClaim(owner) == [request |-> [claim |-> [owner |-> owner]]]

\* ISubmitClaimsForCTypesClassic.content: an array, kept as its items
ClaimsContent(owners) == [items |-> [i \in 1..Len(owners) |-> AttestedClaim(owners[i])]]

OwnerLists == UNION {[1..n -> Addresses] : n \in 0..MaxClaims}

Bodies ==
    {[type |-> t, content |-> PlainContent] : t \in OtherTypes}
    \cup {[type |-> MessageBodyType.REQUEST_ATTESTATION_FOR_CLAIM, content |-> RequestContent(o)] : o \in Addresses}
    \cup {[type |-> MessageBodyType.SUBMIT_ATTESTATION_FOR_CLAIM, content |-> AttestationContent(o)] : o \in Addresses}
    \cup {[type |-> MessageBodyType.SUBMIT_CLAIMS_FOR_CTYPES_CLASSIC, content |-> ClaimsContent(l)] : l \in OwnerLists}

\* JSON values that are not message bodies: null, a number, an object with an
\* unknown type, an object without type, a checked kind with foreign content
OddValues ==
    { [null |-> TRUE],
      [num |-> 42],
      [type |-> "foo", content |-> PlainContent],
      [content |-> PlainContent],
      [type |-> MessageBodyType.REQUEST_ATTESTATION_FOR_CLAIM, content |-> PlainContent],
      [type |-> MessageBodyType.SUBMIT_CLAIMS_FOR_CTYPES_CLASSIC, content |-> PlainContent] }

JSONValues == Bodies \cup OddValues

----------------------------------------------------------------------------
(* JSON.stringify / JSON.parse *)

RECURSIVE ItemsToStr(_)
ItemsToStr(items) ==
    IF Len(items) = 0 THEN <<>>
    ELSE <<Lit("request.claim.owner:"), Lit(items[1].request.claim.owner)>> \o ItemsToStr(Tail(items))

ContentToStr(c) ==
    IF "cTypeHash" \in DOMAIN c THEN <<Lit("cTypeHash:"), Lit(c.cTypeHash)>>
    ELSE IF "requestForAttestation" \in DOMAIN c
        THEN <<Lit("requestForAttestation.claim.owner:"), Lit(c.requestForAttestation.claim.owner)>>
    ELSE IF "attestation" \in DOMAIN c
        THEN <<Lit("attestation.owner:"), Lit(c.attestation.owner)>>
    ELSE <<Lit("[")>> \o ItemsToStr(c.items) \o <<Lit("]")>>

JSONstringify(v) ==
    IF "null" \in DOMAIN v THEN <<Lit("null")>>
    ELSE IF "num" \in DOMAIN v THEN <<Lit("42")>>
    ELSE <<Lit("{")>>
         \o (IF "type" \in DOMAIN v THEN <<Lit("type:"), Lit(v.type)>> ELSE <<>>)
         \o <<Lit("content:")>> \o ContentToStr(v.content)
         \o <<Lit("}")>>

\* JSON.parse: the value whose text this is, a SyntaxError for any other text
JSONparse(text) ==
    IF \E v \in JSONValues : JSONstringify(v) = text
    THEN [ok |-> TRUE, value |-> CHOOSE v \in JSONValues : JSONstringify(v) = text]
    ELSE [ok |-> FALSE, value |-> [null |-> TRUE]]

\* texts that are not JSON: the empty string and a truncated object
NonJSONTexts == {<<>>, <<Lit("{"), Lit("type:")>>}

----------------------------------------------------------------------------
(* Crypto collaborators *)

\* Crypto.hashStr: a collision-free digest of a string
hashStr(str) == [hash |-> str]

\* Identity.signStr
signStr(id, data) == [signer |-> SignPublicKey(id), over |-> data]

\* DataUtils.validateSignature: TRUE iff it returns, FALSE iff it throws
validateSignature(data, signature, signer) ==
    /\ signature.over = data
    /\ Address(signature.signer.spk) = signer

\* the nonce the random source yields on its n-th draw, as a hex string
Nonce(n) == <<Lit("0x"), [r |-> n]>>

\* key shared by a box key pair and a box public key (symmetric in the two)
SharedKey(k1, k2) == {k1, k2}

\* Identity.encryptAsymmetricAsStr: throws on a missing or malformed key
encryptAsymmetricAsStr(id, text, boxPublicKey, n) ==
    IF ~IsBoxPublicKey(boxPublicKey)
    THEN [ok |-> FALSE, box |-> <<>>, nonce |-> <<>>]
    ELSE [ ok    |-> TRUE,
           box   |-> <<Lit("0x"), [box |-> [pt |-> text, n |-> n, k |-> SharedKey(getBoxPublicKey(id), boxPublicKey)]]>>,
           nonce |-> Nonce(n) ]

\* Identity.decryptAsymmetricAsStr: the plaintext, or false
decryptAsymmetricAsStr(id, ea, boxPublicKey) ==
    IF /\ Len(ea.box) = 2
       /\ ea.box[1] = Lit("0x")
       /\ "box" \in DOMAIN ea.box[2]
       /\ ea.nonce = Nonce(ea.box[2].box.n)
       /\ ea.box[2].box.k = SharedKey(getBoxPublicKey(id), boxPublicKey)
    THEN [ok |-> TRUE, str |-> ea.box[2].box.pt]
    ELSE [ok |-> FALSE, str |-> <<>>]

----------------------------------------------------------------------------
(* Message.ts: constructor, encrypt, the two checks, decrypt *)

NoMessage == [none |-> TRUE]

\* NewMessage sealing the body for the sender's own box key
NewMessageOwnKey(body, sender, receiver, t, n) ==
    LET encryptedMessage ==
            encryptAsymmetricAsStr(sender, JSONstringify(body), getBoxPublicKey(sender), n)
        hashInput == encryptedMessage.box \o encryptedMessage.nonce \o NumToStr(t)
        hash == hashStr(hashInput)
    IN  [ ok    |-> TRUE,
          calls |-> <<"encryptAsymmetricAsStr", "hashStr", "signStr">>,
          msg   |-> [ body               |-> body,
                      createdAt          |-> t,
                      receiverAddress    |-> receiver.address,
                      senderAddress      |-> Address(sender),
                      senderBoxPublicKey |-> getBoxPublicKey(sender),
                      message            |-> encryptedMessage.box,
                      nonce              |-> encryptedMessage.nonce,
                      hash               |-> hash,
                      signature          |-> signStr(sender, hash),
                      messageId          |-> NoId,
                      receivedAt         |-> NoTime ] ]

\* NewMessage with a hash input of another order, or taken before the
\* ciphertext and the nonce are assigned
NewMessageHashing(body, sender, receiver, t, n, early) ==
    LET encryptedMessage ==
            encryptAsymmetricAsStr(sender, JSONstringify(body), receiver.boxPublicKeyAsHex, n)
        hashInput == IF early THEN <<Lit("undefined"), Lit("undefined")>> \o NumToStr(t)
                     ELSE encryptedMessage.nonce \o encryptedMessage.box \o NumToStr(t)
        hash == hashStr(hashInput)
    IN  IF ~encryptedMessage.ok
        THEN [ok |-> FALSE, calls |-> <<"encryptAsymmetricAsStr">>, msg |-> NoMessage]
        ELSE [ ok    |-> TRUE,
               calls |-> <<"encryptAsymmetricAsStr", "hashStr", "signStr">>,
               msg   |-> [ body               |-> body,
                           createdAt          |-> t,
                           receiverAddress    |-> receiver.address,
                           senderAddress      |-> Address(sender),
                           senderBoxPublicKey |-> getBoxPublicKey(sender),
                           message            |-> encryptedMessage.box,
                           nonce              |-> encryptedMessage.nonce,
                           hash               |-> hash,
                           signature          |-> signStr(sender, hash),
                           messageId          |-> NoId,
                           receivedAt         |-> NoTime ] ]

\* NewMessage hashing nonce + message + createdAt
NewMessageNonceFirst(body, sender, receiver, t, n) ==
    NewMessageHashing(body, sender, receiver, t, n, FALSE)

\* NewMessage computing hashInput before message and nonce are assigned
NewMessageHashBeforeSeal(body, sender, receiver, t, n) ==
    NewMessageHashing(body, sender, receiver, t, n, TRUE)

\* new Message(body, sender, receiver) at time t, the random source at draw n.
\* ok = FALSE: the constructor threw; calls: the cryptographic calls it made
NewMessage(body, sender, receiver, t, n) ==
    LET encryptedMessage ==
            encryptAsymmetricAsStr(sender, JSONstringify(body), receiver.boxPublicKeyAsHex, n)
        hashInput == encryptedMessage.box \o encryptedMessage.nonce \o NumToStr(t)
        hash == hashStr(hashInput)
    IN  IF ~encryptedMessage.ok
        THEN [ok |-> FALSE, calls |-> <<"encryptAsymmetricAsStr">>, msg |-> NoMessage]
        ELSE [ ok    |-> TRUE,
               calls |-> <<"encryptAsymmetricAsStr", "hashStr", "signStr">>,
               msg   |-> [ body               |-> body,
                           createdAt          |-> t,
                           receiverAddress    |-> receiver.address,
                           senderAddress      |-> Address(sender),
                           senderBoxPublicKey |-> getBoxPublicKey(sender),
                           message            |-> encryptedMessage.box,
                           nonce              |-> encryptedMessage.nonce,
                           hash               |-> hash,
                           signature          |-> signStr(sender, hash),
                           messageId          |-> NoId,
                           receivedAt         |-> NoTime ] ]

\* encrypt stamping the envelope with a later time
encryptStamping(m) ==
    [ messageId          |-> m.messageId,
      receivedAt         |-> m.receivedAt,
      message            |-> m.message,
      nonce              |-> m.nonce,
      createdAt          |-> m.createdAt + 1,
      hash               |-> m.hash,
      signature          |-> m.signature,
      receiverAddress    |-> m.receiverAddress,
      senderAddress      |-> m.senderAddress,
      senderBoxPublicKey |-> m.senderBoxPublicKey ]

\* encrypt minting an identifier for a Message that has none
encryptMintingId(m) ==
    [ messageId          |-> IF m.messageId = NoId THEN "uuid-0" ELSE m.messageId,
      receivedAt         |-> m.receivedAt,
      message            |-> m.message,
      nonce              |-> m.nonce,
      createdAt          |-> m.createdAt,
      hash               |-> m.hash,
      signature          |-> m.signature,
      receiverAddress    |-> m.receiverAddress,
      senderAddress      |-> m.senderAddress,
      senderBoxPublicKey |-> m.senderBoxPublicKey ]

\* Message.encrypt
encrypt(m) ==
    [ messageId          |-> m.messageId,
      receivedAt         |-> m.receivedAt,
      message            |-> m.message,
      nonce              |-> m.nonce,
      createdAt          |-> m.createdAt,
      hash               |-> m.hash,
      signature          |-> m.signature,
      receiverAddress    |-> m.receiverAddress,
      senderAddress      |-> m.senderAddress,
      senderBoxPublicKey |-> m.senderBoxPublicKey ]

Returned(calls) == [err |-> "", entity |-> "", calls |-> calls]

Thrown(err, entity, calls) == [err |-> err, entity |-> entity, calls |-> calls]

\* the forEach of the SUBMIT_CLAIMS_FOR_CTYPES_CLASSIC case: TRUE iff a claim throws
RECURSIVE forEachOwnerDiffers(_, _)
forEachOwnerDiffers(items, senderAddress) ==
    IF Len(items) = 0 THEN FALSE
    ELSE IF items[1].request.claim.owner # senderAddress THEN TRUE
    ELSE forEachOwnerDiffers(Tail(items), senderAddress)

\* ensureOwnerIsSender without the SUBMIT_ATTESTATION_FOR_CLAIM case
ensureOwnerSkipsAttestation(body, senderAddress) ==
    IF "null" \in DOMAIN body THEN Thrown("TypeError", "", <<>>)
    ELSE IF "type" \notin DOMAIN body THEN Returned(<<>>)
    ELSE IF body.type = MessageBodyType.REQUEST_ATTESTATION_FOR_CLAIM
        THEN IF "requestForAttestation" \notin DOMAIN body.content THEN Thrown("TypeError", "", <<>>)
             ELSE IF body.content.requestForAttestation.claim.owner # senderAddress
                 THEN Thrown("ERROR_IDENTITY_MISMATCH", "Claim", <<>>)
             ELSE Returned(<<>>)
    ELSE IF body.type = MessageBodyType.SUBMIT_CLAIMS_FOR_CTYPES_CLASSIC
        THEN IF "items" \notin DOMAIN body.content THEN Thrown("TypeError", "", <<>>)
             ELSE IF forEachOwnerDiffers(body.content.items, senderAddress)
                 THEN Thrown("ERROR_IDENTITY_MISMATCH", "Claims", <<>>)
             ELSE Returned(<<>>)
    ELSE Returned(<<>>)

\* Message.ensureOwnerIsSender({ body, senderAddress })
ensureOwnerIsSender(body, senderAddress) ==
    IF "null" \in DOMAIN body THEN Thrown("TypeError", "", <<>>)
    ELSE IF "type" \notin DOMAIN body THEN Returned(<<>>)
    ELSE IF body.type = MessageBodyType.REQUEST_ATTESTATION_FOR_CLAIM
        THEN IF "requestForAttestation" \notin DOMAIN body.content THEN Thrown("TypeError", "", <<>>)
             ELSE IF body.content.requestForAttestation.claim.owner # senderAddress
                 THEN Thrown("ERROR_IDENTITY_MISMATCH", "Claim", <<>>)
             ELSE Returned(<<>>)
    ELSE IF body.type = MessageBodyType.SUBMIT_ATTESTATION_FOR_CLAIM
        THEN IF "attestation" \notin DOMAIN body.content THEN Thrown("TypeError", "", <<>>)
             ELSE IF body.content.attestation.owner # senderAddress
                 THEN Thrown("ERROR_IDENTITY_MISMATCH", "Attestation", <<>>)
             ELSE Returned(<<>>)
    ELSE IF body.type = MessageBodyType.SUBMIT_CLAIMS_FOR_CTYPES_CLASSIC
        THEN IF "items" \notin DOMAIN body.content THEN Thrown("TypeError", "", <<>>)
             ELSE IF forEachOwnerDiffers(body.content.items, senderAddress)
                 THEN Thrown("ERROR_IDENTITY_MISMATCH", "Claims", <<>>)
             ELSE Returned(<<>>)
    ELSE Returned(<<>>)

\* ensureHashAndSignature without the hash comparison
ensureSignatureOnly(encrypted, senderAddress) ==
    IF ~validateSignature(encrypted.hash, encrypted.signature, senderAddress)
    THEN Thrown("ERROR_SIGNATURE_UNVERIFIABLE", "", <<"validateSignature">>)
    ELSE Returned(<<"validateSignature">>)

\* ensureHashAndSignature verifying against the envelope's own senderAddress
ensureSignatureOfEnvelope(encrypted, senderAddress) ==
    IF hashStr(encrypted.message \o encrypted.nonce \o NumToStr(encrypted.createdAt)) # encrypted.hash
    THEN Thrown("ERROR_NONCE_HASH_INVALID", "Message", <<"hashStr">>)
    ELSE IF ~validateSignature(encrypted.hash, encrypted.signature, encrypted.senderAddress)
        THEN Thrown("ERROR_SIGNATURE_UNVERIFIABLE", "", <<"hashStr", "validateSignature">>)
    ELSE Returned(<<"hashStr", "validateSignature">>)

\* Message.ensureHashAndSignature(encrypted, senderAddress)
ensureHashAndSignature(encrypted, senderAddress) ==
    IF hashStr(encrypted.message \o encrypted.nonce \o NumToStr(encrypted.createdAt)) # encrypted.hash
    THEN Thrown("ERROR_NONCE_HASH_INVALID", "Message", <<"hashStr">>)
    ELSE IF ~validateSignature(encrypted.hash, encrypted.signature, senderAddress)
        THEN Thrown("ERROR_SIGNATURE_UNVERIFIABLE", "", <<"hashStr", "validateSignature">>)
    ELSE Returned(<<"hashStr", "validateSignature">>)

\* a Message that takes the receiver of the envelope for its sender
WithBodyOfReceiver(encrypted, messageBody) ==
    [f \in DOMAIN encrypted \cup {"body"} |->
        IF f = "body" THEN messageBody
        ELSE IF f = "senderAddress" THEN encrypted.receiverAddress
        ELSE encrypted[f]]

\* { ...encrypted, body: messageBody }
WithBody(encrypted, messageBody) ==
    [f \in DOMAIN encrypted \cup {"body"} |-> IF f = "body" THEN messageBody ELSE encrypted[f]]

\* decrypt opening the box before it checks hash and signature
decryptBeforeCheck(encrypted, receiver) ==
    LET checked == ensureHashAndSignature(encrypted, encrypted.senderAddress)
        ea      == [box |-> encrypted.message, nonce |-> encrypted.nonce]
        decoded == decryptAsymmetricAsStr(receiver, ea, encrypted.senderBoxPublicKey)
        parsed  == JSONparse(decoded.str)
        decrypted == WithBody(encrypted, parsed.value)
        owner   == ensureOwnerIsSender(decrypted.body, decrypted.senderAddress)
        c1 == <<"decryptAsymmetricAsStr">>
        c2 == c1 \o checked.calls
        c3 == c2 \o <<"JSON.parse">>
        c4 == c3 \o <<"ensureOwnerIsSender">>
    IN  IF (~decoded.ok) \/ decoded.str = <<>>
            THEN [err |-> "ERROR_DECODING_MESSAGE", calls |-> c1, out |-> NoMessage]
        ELSE IF checked.err # "" THEN [err |-> checked.err, calls |-> c2, out |-> NoMessage]
        ELSE IF ~parsed.ok
            THEN [err |-> "ERROR_PARSING_MESSAGE", calls |-> c3, out |-> NoMessage]
        ELSE IF owner.err # ""
            THEN [err |-> "ERROR_PARSING_MESSAGE", calls |-> c4, out |-> NoMessage]
        ELSE [err |-> "", calls |-> c4, out |-> decrypted]

\* Message.decrypt(encrypted, receiver): the outcome, the calls made in
\* order, and the returned IMessage
decrypt(encrypted, receiver) ==
    LET checked == ensureHashAndSignature(encrypted, encrypted.senderAddress)
        ea      == [box |-> encrypted.message, nonce |-> encrypted.nonce]
        decoded == decryptAsymmetricAsStr(receiver, ea, encrypted.senderBoxPublicKey)
        parsed  == JSONparse(decoded.str)
        decrypted == WithBody(encrypted, parsed.value)
        owner   == ensureOwnerIsSender(decrypted.body, decrypted.senderAddress)
        c1 == checked.calls
        c2 == c1 \o <<"decryptAsymmetricAsStr">>
        c3 == c2 \o <<"JSON.parse">>
        c4 == c3 \o <<"ensureOwnerIsSender">>
    IN  IF checked.err # "" THEN [err |-> checked.err, calls |-> c1, out |-> NoMessage]
        ELSE IF (~decoded.ok) \/ decoded.str = <<>>
            THEN [err |-> "ERROR_DECODING_MESSAGE", calls |-> c2, out |-> NoMessage]
        ELSE IF ~parsed.ok
            THEN [err |-> "ERROR_PARSING_MESSAGE", calls |-> c3, out |-> NoMessage]
        ELSE IF owner.err # ""
            THEN [err |-> "ERROR_PARSING_MESSAGE", calls |-> c4, out |-> NoMessage]
        ELSE [err |-> "", calls |-> c4, out |-> decrypted]

----------------------------------------------------------------------------
(* Message.ts: the secure-channel adapter, its strings and collaborators *)

PROTOCOL_NAME == "kilt-messaging"

PROTOCOL_VERSION == "0.19"

\* A type URI is a sequence of tokens.  A token is a delimiter character or
\* a run of characters that the pattern typestringReg treats alike.

\* the characters of the class [/?&:;=]
Delimiters == {"/", "?", "&", ":", ";", "="}

\* runs over [0-9.]
VersionWords == {PROTOCOL_VERSION, "1.0"}

\* runs over [a-z0-9._-] with a character outside [0-9.]
LowerWords ==
    MessageBodyTypes \cup {PROTOCOL_NAME, "kilt.io", "basicmessage", "did", "sov", "spec", "foo", "v0.19"}

\* runs with a character outside [a-z0-9._-] that is no delimiter
OtherWords == {"Kilt-Messaging", "REQUEST_TERMS", "BzCbs"}

\* the token is a run over [a-z0-9._-]
InNameClass(tok) == tok \in LowerWords \cup VersionWords

\* the token is a run over [0-9.]
InVersionClass(tok) == tok \in VersionWords

\* the string the tokens spell
RECURSIVE Join(_)
Join(toks) == IF Len(toks) = 0 THEN "" ELSE toks[1] \o Join(Tail(toks))

NoMatch == [matched |-> FALSE, captures |-> <<>>]

\* the last position of str before position hi that holds a token of S, or 0
LastOf(str, S, hi) ==
    IF \A k \in 1..(hi - 1) : str[k] \notin S THEN 0
    ELSE CHOOSE k \in 1..(hi - 1) : str[k] \in S /\ \A l \in (k + 1)..(hi - 1) : str[l] \notin S

\* str.match(typestringReg) for
\* (.*?)[/?&:;=]([a-z0-9._-]+)/([0-9.]+)/([a-z0-9._-]+)$
\* The pattern is anchored at the end and none of name, version and type can
\* hold a delimiter: type is what follows the last "/", version what lies
\* between the last two "/", name what lies between the delimiter before it
\* and version; the lazy first group takes all that precedes that delimiter.
match(str) ==
    LET n == Len(str)
        q == LastOf(str, {"/"}, n + 1)
        p == LastOf(str, {"/"}, q)
        j == LastOf(str, Delimiters, p)
    IN  IF /\ q > 0 /\ p > 0 /\ j > 0
           /\ j + 1 <= p - 1 /\ p + 1 <= q - 1 /\ q + 1 <= n
           /\ \A k \in (j + 1)..(p - 1) : InNameClass(str[k])
           /\ \A k \in (p + 1)..(q - 1) : InVersionClass(str[k])
           /\ \A k \in (q + 1)..n : InNameClass(str[k])
        THEN [ matched  |-> TRUE,
               captures |-> << Join(str),
                               Join(SubSeq(str, 1, j - 1)),
                               Join(SubSeq(str, j + 1, p - 1)),
                               Join(SubSeq(str, p + 1, q - 1)),
                               Join(SubSeq(str, q + 1, n)) >> ]
        ELSE NoMatch

\* isKnownMessageType accepting the member names of the enum as well
isKnownNameOrValue(type) ==
    type \in {MessageBodyType[k] : k \in DOMAIN MessageBodyType} \cup DOMAIN MessageBodyType

\* isKnownMessageType accepting every string
isKnownAnything(type) == TRUE

\* isKnownMessageType(type): Object.values(MessageBodyType).includes(type)
isKnownMessageType(type) == type \in {MessageBodyType[k] : k \in DOMAIN MessageBodyType}

\* JavaScript values: a string, a number, undefined
Str(s) == [str |-> s]

undefined == [undefined |-> TRUE]

\* the three digits of the milliseconds of a time below one second
Pad3(digits) ==
    IF Len(digits) = 1 THEN <<Digit(0), Digit(0)>> \o digits
    ELSE IF Len(digits) = 2 THEN <<Digit(0)>> \o digits
    ELSE digits

\* new Date(t).toISOString() of a time in the first second of the epoch
toISOString(t) == <<Lit("1970-01-01T00:00:00.")>> \o Pad3(NumToStr(t)) \o <<Lit("Z")>>

\* new Date(iso).getTime() of such a string
getTime(iso) == StrToNum(SubSeq(iso, 2, Len(iso) - 1))

\* the contents a message body can carry
Contents == {b.content : b \in Bodies}

\* JSON.stringify of the secure-channel envelope: members that are undefined
\* are left out, content is serialised, strings are quoted
JSONstringifyDIDComm(o) ==
    [ obj |-> [ k \in {f \in DOMAIN o : o[f] # undefined} |->
                  IF k = "content" THEN ContentToStr(o[k]) ELSE o[k] ] ]

\* JSON.parse of a packed text: an object, null, a number, or a SyntaxError
JSONparseDIDComm(text) ==
    IF "obj" \in DOMAIN text
    THEN [ ok    |-> TRUE,
           value |-> [ k \in DOMAIN text.obj |->
                         IF k = "content"
                         THEN CHOOSE c \in Contents : ContentToStr(c) = text.obj[k]
                         ELSE text.obj[k] ] ]
    ELSE IF text = Lit("null") THEN [ok |-> TRUE, value |-> [null |-> TRUE]]
    ELSE IF text = Lit("42") THEN [ok |-> TRUE, value |-> [num |-> 42]]
    ELSE [ok |-> FALSE, value |-> [null |-> TRUE]]

\* naclKeypairFromSeed(identity.seed)
naclKeypairFromSeed(id) == [publicKey |-> SignPublicKey(id), secretKey |-> [ssk |-> id]]

\* decodeAddress: the signing public key an address encodes
decodeAddress(address) == SignPublicKey(CHOOSE id \in Ids : Address(id) = address)

\* encodeAddress: the address of a signing public key
encodeAddress(key) == Address(key.spk)

base58Encode(key) == [b58 |-> key]

base58Decode(s) == s.b58

\* DIDComm.pack_auth_msg_for_recipients: authenticated encryption of msg for
\* the recipient keys under the sender's key pair
pack_auth_msg_for_recipients(msg, recipientKeys, senderKeys, nonRepudiable) ==
    [ sealed        |-> msg,
      recipients    |-> {recipientKeys[i] : i \in DOMAIN recipientKeys},
      senderKey     |-> senderKeys.publicKey,
      nonRepudiable |-> nonRepudiable ]

\* DIDComm.unpackMessage: rejects when the key pair is no recipient's
unpackMessage(message, keys) ==
    IF keys.publicKey \notin message.recipients
    THEN [ok |-> FALSE, message |-> Lit(""), recipientKey |-> base58Encode(keys.publicKey),
          senderKey |-> base58Encode(message.senderKey)]
    ELSE [ok |-> TRUE, message |-> message.sealed, recipientKey |-> base58Encode(keys.publicKey),
          senderKey |-> base58Encode(message.senderKey)]

\* uuid(): the n-th identifier minted
uuid(n) == "uuid-" \o ToString(n)

\* the messageBody of getDIDComm taking the box key stored in the Message
getDIDCommBodyOwnKey(m, sender, n) ==
    ("content" :> m.body.content)
    @@ ("@id" :> Str(IF m.messageId \in {NoId, ""} THEN uuid(n) ELSE m.messageId))
    @@ ("@type" :> Str(<<"kilt.io", "/", PROTOCOL_NAME, "/", PROTOCOL_VERSION, "/", m.body.type>>))
    @@ ("sent_time" :> Str(toISOString(m.createdAt)))
    @@ ("senderBoxPublicKey" :> m.senderBoxPublicKey)

\* the messageBody getDIDComm builds for Message m and the sender, uuid()
\* having minted n identifiers
getDIDCommBody(m, sender, n) ==
    ("content" :> m.body.content)
    @@ ("@id" :> Str(IF m.messageId \in {NoId, ""} THEN uuid(n) ELSE m.messageId))
    @@ ("@type" :> Str(<<"kilt.io", "/", PROTOCOL_NAME, "/", PROTOCOL_VERSION, "/", m.body.type>>))
    @@ ("sent_time" :> Str(toISOString(m.createdAt)))
    @@ ("senderBoxPublicKey" :> getBoxPublicKey(sender))

\* getDIDComm up to its await: the locals it holds while it waits
getDIDCommLocals(m, recipients, sender, repudiable, n) ==
    [ messageBody   |-> getDIDCommBody(m, sender, n),
      recipientKeys |-> [i \in DOMAIN recipients |-> decodeAddress(recipients[i].address)],
      senderKeyPair |-> naclKeypairFromSeed(sender),
      repudiable    |-> repudiable ]

\* getDIDComm after its await: the packed message it resolves to
getDIDCommPack(locals) ==
    pack_auth_msg_for_recipients(
        JSONstringifyDIDComm(locals.messageBody),
        locals.recipientKeys,
        [ publicKey  |-> locals.senderKeyPair.publicKey,
          privateKey |-> locals.senderKeyPair.secretKey,
          keyType    |-> "ed25519" ],
        ~locals.repudiable)

\* the protocol test comparing the name only
cantHandleName(name, version) == name # PROTOCOL_NAME

\* the test that throws ERROR_CANT_HANDLE_PROTOCOL(name, version)
cantHandleProtocol(name, version) == name # PROTOCOL_NAME \/ version # PROTOCOL_VERSION

Failed(err) == [err |-> err, out |-> NoMessage]

\* the value of a constant: a local constant of the code is bound as the
\* member of a singleton, which evaluates it once
Only(S) == CHOOSE x \in S : TRUE

\* decryptDIDComm from the test of captures on (lines 189-212)
decryptDIDCommTyped(unpacked, contents, captures) ==
    IF captures.matched /\ Len(captures.captures) = 5
    THEN IF cantHandleProtocol(captures.captures[3], captures.captures[4])
             THEN Failed("ERROR_CANT_HANDLE_PROTOCOL")
         ELSE IF isKnownMessageType(captures.captures[5])
             THEN [ err |-> "",
                    out |-> [ body               |-> [ content |-> IF "content" \in DOMAIN contents
                                                                   THEN contents.content ELSE undefined,
                                                       type    |-> captures.captures[5] ],
                              createdAt          |-> IF "sent_time" \in DOMAIN contents
                                                     THEN getTime(contents.sent_time.str) ELSE NoTime,
                              senderBoxPublicKey |-> IF "senderBoxPublicKey" \in DOMAIN contents
                                                     THEN contents.senderBoxPublicKey ELSE Lit(""),
                              receiverAddress    |-> encodeAddress(base58Decode(unpacked.recipientKey)),
                              senderAddress      |-> encodeAddress(base58Decode(unpacked.senderKey)) ] ]
         ELSE Failed("unknown message type")
    ELSE Failed("no or invalid @type URI in message")

\* decryptDIDComm from the parsed contents on (lines 183-212): reading
\* '@type' of null throws a TypeError
decryptDIDCommParsed(unpacked, parsed) ==
    IF ~parsed.ok THEN Failed("SyntaxError")
    ELSE IF "null" \in DOMAIN parsed.value THEN Failed("TypeError")
    ELSE Only({ decryptDIDCommTyped(unpacked, parsed.value, captures) :
                  captures \in { IF /\ "@type" \in DOMAIN parsed.value
                                    /\ "str" \in DOMAIN parsed.value["@type"]
                                 THEN match(parsed.value["@type"].str)
                                 ELSE NoMatch } })

\* decryptDIDComm after unpackMessage resolved to unpacked
decryptDIDCommUnpacked(unpacked) ==
    Only({ decryptDIDCommParsed(unpacked, parsed) :
             parsed \in {JSONparseDIDComm(unpacked.message)} })

----------------------------------------------------------------------------
(* The state machine *)

NoEnvelope == [none |-> TRUE]

Step(op) == [op |-> op, err |-> "", entity |-> "", calls |-> <<>>, out |-> NoMessage, arg |-> NoMessage]

MessageIds == {"m1"}

\* values a modified byte of message or nonce takes
FlipBytes == {Lit("ff"), [r |-> 1]}

\* values a modified digit of createdAt takes
FlipDigits == {1, 9}

\* values Date.now() returns when last it returned t
Clock(t) == t..(9 + MaxTicks)

\* the slots of asynchronous calls
Calls == 1..MaxCalls

Idle == [pc |-> "idle", op |-> "", arg |-> NoMessage, locals |-> NoMessage, err |-> "", out |-> NoMessage]

\* new Blockchain(api): no nonce stored, no call of getNonce made
NoChain == [accountNonces |-> <<>>, initial |-> <<>>, calls |-> <<>>, queue |-> <<>>, resolved |-> <<>>]

Init ==
    /\ msgs = <<>>
    /\ now = 9
    /\ rnd = 0
    /\ env = NoEnvelope
    /\ orig = [by |-> "", envelope |-> NoEnvelope]
    /\ res = Step("")
    /\ didcomm = [ready |-> "pending", instances |-> 1]
    /\ tasks = [c \in Calls |-> Idle]
    /\ packed = NoEnvelope
    /\ uuids = 0
    /\ chain = NoChain

\* new Message(body, sender, receiver), Date.now() returning t, while fewer
\* than cap Messages exist
Construct(body, sender, receiver, t, cap) ==
    /\ Len(msgs) < cap
    /\ orig.by # "craft"
    /\ t \in Clock(now)
    /\ now' = t
    /\ LET c == NewMessage(body, sender, receiver, t, rnd)
       IN  /\ msgs' = IF c.ok THEN Append(msgs, c.msg) ELSE msgs
           /\ rnd' = IF c.ok THEN rnd + 1 ELSE rnd
           /\ res' = [ op     |-> "new Message",
                       err    |-> IF c.ok THEN "" ELSE "bad public key size",
                       entity |-> "",
                       calls  |-> c.calls,
                       out    |-> c.msg,
                       arg    |-> [body |-> body, sender |-> sender, receiver |-> receiver] ]
    /\ UNCHANGED <<env, orig>>
    /\ UNCHANGED dvars

\* the caller assigns the public field messageId of msgs[i]
SetMessageId(i, id) ==
    /\ i \in DOMAIN msgs
    /\ msgs[i].messageId # id
    /\ msgs' = [msgs EXCEPT ![i].messageId = id]
    /\ res' = Step("messageId =")
    /\ UNCHANGED <<now, rnd, env, orig>>
    /\ UNCHANGED dvars

\* the caller assigns the public field receivedAt of msgs[i]
SetReceivedAt(i, t) ==
    /\ i \in DOMAIN msgs
    /\ msgs[i].receivedAt # t
    /\ msgs' = [msgs EXCEPT ![i].receivedAt = t]
    /\ res' = Step("receivedAt =")
    /\ UNCHANGED <<now, rnd, env, orig>>
    /\ UNCHANGED dvars

\* msgs[i].encrypt(); the returned envelope goes on the wire
Encrypt(i) ==
    /\ i \in DOMAIN msgs
    /\ env' = encrypt(msgs[i])
    /\ orig' = [by |-> "encrypt", envelope |-> encrypt(msgs[i])]
    /\ res' = [ op |-> "encrypt", err |-> "", entity |-> "", calls |-> <<>>,
                out |-> encrypt(msgs[i]), arg |-> msgs[i] ]
    /\ UNCHANGED <<msgs, now, rnd>>
    /\ UNCHANGED dvars

\* a peer seals an arbitrary text for a receiver with the crypto library,
\* hashes and signs it as the constructor does, and puts it on the wire
Craft(peer, text, receiver, t) ==
    /\ msgs = <<>>
    /\ rnd < MaxCraft
    /\ t \in Clock(now)
    /\ now' = t
    /\ LET ea   == encryptAsymmetricAsStr(peer, text, getBoxPublicKey(receiver), rnd)
           hash == hashStr(ea.box \o ea.nonce \o NumToStr(t))
           e    == [ messageId          |-> NoId,
                     receivedAt         |-> NoTime,
                     message            |-> ea.box,
                     nonce              |-> ea.nonce,
                     createdAt          |-> t,
                     hash               |-> hash,
                     signature          |-> signStr(peer, hash),
                     receiverAddress    |-> Address(receiver),
                     senderAddress      |-> Address(peer),
                     senderBoxPublicKey |-> getBoxPublicKey(peer) ]
       IN  /\ env' = e
           /\ orig' = [by |-> "craft", envelope |-> e]
    /\ rnd' = rnd + 1
    /\ res' = Step("craft")
    /\ UNCHANGED msgs
    /\ UNCHANGED dvars

\* e with one byte of the ciphertext changed
FlipMessage(e, pos, b) == [e EXCEPT !.message[pos] = b]

\* e with one byte of the nonce changed
FlipNonce(e, pos, b) == [e EXCEPT !.nonce[pos] = b]

\* e with one digit of createdAt changed
FlipCreatedAt(e, pos, d) ==
    [e EXCEPT !.createdAt = StrToNum([NumToStr(e.createdAt) EXCEPT ![pos] = Digit(d)])]

\* the envelopes that differ from e in one byte of message, nonce or createdAt
Flipped(e) ==
    ( {FlipMessage(e, pos, b) : pos \in DOMAIN e.message, b \in FlipBytes}
      \cup {FlipNonce(e, pos, b) : pos \in DOMAIN e.nonce, b \in FlipBytes}
      \cup {FlipCreatedAt(e, pos, d) : pos \in DOMAIN NumToStr(e.createdAt), d \in FlipDigits} )
    \ {e}

\* e with the hash recomputed over its fields and signed by id
Resigned(e, id) ==
    LET hash == hashStr(e.message \o e.nonce \o NumToStr(e.createdAt))
    IN  [e EXCEPT !.hash = hash, !.signature = signStr(id, hash)]

\* e with the address of id and the signature of id over the unchanged hash
Claimed(e, id) == [e EXCEPT !.senderAddress = Address(id), !.signature = signStr(id, e.hash)]

BoxKeys == {getBoxPublicKey(id) : id \in Ids} \cup {MalformedKey}

\* what the wire can make of the envelope that was sent
Tampered(e) ==
    Flipped(e)
    \cup {Resigned(e, id) : id \in Ids}
    \cup {Resigned(f, id) : f \in Flipped(e), id \in Ids}
    \cup {Claimed(e, id) : id \in Ids}
    \cup {[e EXCEPT !.senderBoxPublicKey = k] : k \in BoxKeys}

\* the wire delivers e instead of the envelope that was sent
Tamper(e) ==
    /\ orig.by # ""
    /\ env = orig.envelope
    /\ e \in Tampered(orig.envelope)
    /\ e # env
    /\ env' = e
    /\ res' = Step("tamper")
    /\ UNCHANGED <<msgs, now, rnd, orig>>
    /\ UNCHANGED dvars

\* Message.decrypt(env, receiver)
Decrypt(receiver) ==
    /\ env # NoEnvelope
    /\ LET d == decrypt(env, receiver)
       IN  res' = [ op |-> "decrypt", err |-> d.err, entity |-> "", calls |-> d.calls,
                    out |-> d.out, arg |-> [encrypted |-> env, receiver |-> receiver] ]
    /\ UNCHANGED <<msgs, now, rnd, env, orig>>
    /\ UNCHANGED dvars

\* Message.ensureHashAndSignature(env, senderAddress)
EnsureHashAndSignature(senderAddress) ==
    /\ env # NoEnvelope
    /\ LET c == ensureHashAndSignature(env, senderAddress)
       IN  res' = [ op |-> "ensureHashAndSignature", err |-> c.err, entity |-> c.entity,
                    calls |-> c.calls, out |-> NoMessage,
                    arg |-> [encrypted |-> env, senderAddress |-> senderAddress] ]
    /\ UNCHANGED <<msgs, now, rnd, env, orig>>
    /\ UNCHANGED dvars

\* Message.ensureOwnerIsSender(msgs[i])
EnsureOwnerIsSender(i) ==
    /\ i \in DOMAIN msgs
    /\ LET c == ensureOwnerIsSender(msgs[i].body, msgs[i].senderAddress)
       IN  res' = [ op |-> "ensureOwnerIsSender", err |-> c.err, entity |-> c.entity,
                    calls |-> c.calls, out |-> NoMessage, arg |-> msgs[i] ]
    /\ UNCHANGED <<msgs, now, rnd, env, orig>>
    /\ UNCHANGED dvars

CraftTexts == NonJSONTexts \cup {JSONstringify(v) : v \in OddValues}

\* the receivers a Message is constructed for
Receivers == {PublicIdentity("bob")} \cup BadPublicIdentities

\* the bodies of the runs that look at the wire and at several Messages
WireBodies ==
    {[type |-> MessageBodyType.REQUEST_TERMS, content |-> PlainContent]}
    \cup {[type |-> MessageBodyType.REQUEST_ATTESTATION_FOR_CLAIM, content |-> RequestContent(o)] : o \in Addresses}

\* one Message of any kind, from construction to the receiver's checks
Next ==
    \/ \E body \in Bodies, sender \in Ids, receiver \in Receivers, t \in Clock(now) :
           Construct(body, sender, receiver, t, 1)
    \/ \E id \in MessageIds : SetMessageId(1, id)
    \/ SetReceivedAt(1, now + 1)
    \/ Encrypt(1)
    \/ \E receiver \in Ids : Decrypt(receiver)
    \/ \E a \in Addresses : EnsureHashAndSignature(a)
    \/ EnsureOwnerIsSender(1)

Spec == Init /\ [][Next]_vars

\* one envelope, of a Message or of a peer, modified on the wire
NextWire ==
    \/ \E body \in WireBodies, sender \in Ids, t \in Clock(now) :
           Construct(body, sender, PublicIdentity("bob"), t, 1)
    \/ Encrypt(1)
    \/ \E peer \in Ids, text \in CraftTexts, t \in Clock(now) :
           Craft(peer, text, "bob", t)
    \/ orig.by # "" /\ \E e \in Tampered(orig.envelope) : Tamper(e)
    \/ \E receiver \in Ids : Decrypt(receiver)
    \/ \E a \in Addresses : EnsureHashAndSignature(a)

SpecWire == Init /\ [][NextWire]_vars

\* several Messages constructed in one run
NextFresh ==
    \/ \E body \in WireBodies, sender \in Ids, t \in Clock(now) :
           Construct(body, sender, PublicIdentity("bob"), t, MaxMessages)
    \/ \E i \in 1..MaxMessages : Encrypt(i)

SpecFresh == Init /\ [][NextFresh]_vars

----------------------------------------------------------------------------
(* The secure-channel adapter as asynchronous calls *)

Done(frame, err, out) == [frame EXCEPT !.pc = "done", !.err = err, !.out = out]

\* the continuation of `await didcomm.ready` runs although ready is pending
skipAwait(d) == TRUE

\* `await didcomm.ready`: the continuation runs once ready has resolved
awaitReady(d) == d.ready = "resolved"

\* the message unpackMessage is given is read from the wire when it starts
messageOnWire(frame, wire) == wire

\* the message unpackMessage is given: the argument of the call
messageOf(frame, wire) == frame.arg.message

\* the readiness promise of the cryptographic engine resolves
ResolveReady ==
    /\ didcomm.ready = "pending"
    /\ didcomm' = [didcomm EXCEPT !.ready = "resolved"]
    /\ UNCHANGED <<tasks, packed, uuids, chain>>
    /\ UNCHANGED mvars

\* msgs[i].getDIDComm(recipients, sender, repudiable) is called in slot c and
\* runs to its await
StartGetDIDComm(c, i, recipients, sender, repudiable) ==
    /\ tasks[c].pc \in {"idle", "done"}
    /\ i \in DOMAIN msgs
    /\ msgs[i].messageId \in {NoId, ""} => uuids < MaxUuids
    /\ tasks' = [tasks EXCEPT ![c] =
                    [ pc     |-> "awaitReady",
                      op     |-> "getDIDComm",
                      arg    |-> [ m |-> msgs[i], recipients |-> recipients,
                                   sender |-> sender, repudiable |-> repudiable ],
                      locals |-> getDIDCommLocals(msgs[i], recipients, sender, repudiable, uuids),
                      err    |-> "",
                      out    |-> NoMessage ]]
    /\ uuids' = IF msgs[i].messageId \in {NoId, ""} THEN uuids + 1 ELSE uuids
    /\ UNCHANGED <<didcomm, packed, chain>>
    /\ UNCHANGED mvars

\* getDIDComm in slot c resumes, packs, and resolves; the caller sends the
\* packed message
ResumeGetDIDComm(c) ==
    /\ tasks[c].pc = "awaitReady"
    /\ tasks[c].op = "getDIDComm"
    /\ awaitReady(didcomm)
    /\ \E message \in {getDIDCommPack(tasks[c].locals)} :
           /\ tasks' = [tasks EXCEPT ![c] = Done(@, "", message)]
           /\ packed' = message
    /\ UNCHANGED <<didcomm, uuids, chain>>
    /\ UNCHANGED mvars

\* a peer packs a text of its choice for bob with the DIDComm library
CraftDIDComm(peer, text) ==
    /\ msgs = <<>>
    /\ packed = NoEnvelope
    /\ packed' = pack_auth_msg_for_recipients(
                     text, <<decodeAddress(Address("bob"))>>,
                     [ publicKey  |-> naclKeypairFromSeed(peer).publicKey,
                       privateKey |-> naclKeypairFromSeed(peer).secretKey,
                       keyType    |-> "ed25519" ],
                     FALSE)
    /\ UNCHANGED <<didcomm, tasks, uuids, chain>>
    /\ UNCHANGED mvars

\* Message.decryptDIDComm(packed, recipient) is called in slot c and runs to
\* its first await
StartDecryptDIDComm(c, recipient) ==
    /\ tasks[c].pc \in {"idle", "done"}
    /\ packed # NoEnvelope
    /\ tasks' = [tasks EXCEPT ![c] =
                    [ pc     |-> "awaitReady",
                      op     |-> "decryptDIDComm",
                      arg    |-> [message |-> packed, recipient |-> recipient],
                      locals |-> [recKeyPair |-> naclKeypairFromSeed(recipient)],
                      err    |-> "",
                      out    |-> NoMessage ]]
    /\ UNCHANGED <<didcomm, packed, uuids, chain>>
    /\ UNCHANGED mvars

\* decryptDIDComm in slot c resumes and unpacks; it rejects if unpackMessage does
UnpackDIDComm(c) ==
    /\ tasks[c].pc = "awaitReady"
    /\ tasks[c].op = "decryptDIDComm"
    /\ awaitReady(didcomm)
    /\ \E unpacked \in { unpackMessage(
                               messageOf(tasks[c], packed),
                               [ publicKey  |-> tasks[c].locals.recKeyPair.publicKey,
                                 privateKey |-> tasks[c].locals.recKeyPair.secretKey,
                                 keyType    |-> "ed25519" ]) } :
           tasks' = [tasks EXCEPT ![c] =
                        IF unpacked.ok
                        THEN [@ EXCEPT !.pc = "awaitUnpack",
                                       !.locals = [recKeyPair |-> @.recKeyPair, unpacked |-> unpacked]]
                        ELSE Done(@, "unpackMessage rejected", NoMessage)]
    /\ UNCHANGED <<didcomm, packed, uuids, chain>>
    /\ UNCHANGED mvars

\* decryptDIDComm in slot c resumes with the unpacked message and settles
FinishDecryptDIDComm(c) ==
    /\ tasks[c].pc = "awaitUnpack"
    /\ \E r \in {decryptDIDCommUnpacked(tasks[c].locals.unpacked)} :
           tasks' = [tasks EXCEPT ![c] = Done(@, r.err, r.out)]
    /\ UNCHANGED <<didcomm, packed, uuids, chain>>
    /\ UNCHANGED mvars

\* the identifiers a caller assigns
CallerIds == MessageIds \cup {""}

\* the recipient lists of getDIDComm
RecipientLists == {<<PublicIdentity("bob")>>, <<PublicIdentity("alice"), PublicIdentity("bob")>>}

\* the type URIs a peer writes: issuer, delimiter, name, "/", version, "/", type
PeerTypeURIs ==
    { issuer \o <<sep, name, "/", version, "/", type>> :
        issuer \in {<<>>, <<"kilt.io">>, <<"did", ":", "sov", ":", "BzCbs", ";", "spec">>},
        sep \in {"/", ";"},
        name \in {PROTOCOL_NAME, "basicmessage", "Kilt-Messaging"},
        version \in {PROTOCOL_VERSION, "1.0", "v0.19"},
        type \in {MessageBodyType.REQUEST_TERMS, MessageBodyType.INFORM_CREATE_DELEGATION,
                  "foo", "REQUEST_TERMS"} }

\* strings with fewer segments than a type URI has
ShortTypeURIs ==
    { <<>>,
      <<"kilt.io", "/", MessageBodyType.REQUEST_TERMS>>,
      <<PROTOCOL_NAME, "/", PROTOCOL_VERSION, "/", MessageBodyType.REQUEST_TERMS>>,
      <<"kilt.io", "/", PROTOCOL_NAME, "/", PROTOCOL_VERSION, "/">> }

\* an envelope a peer writes, with v as its '@type' (undefined: without one)
PeerEnvelope(v) ==
    ("content" :> PlainContent)
    @@ ("@id" :> Str("m1"))
    @@ ("@type" :> v)
    @@ ("sent_time" :> Str(toISOString(9)))
    @@ ("senderBoxPublicKey" :> getBoxPublicKey("alice"))

\* the texts a peer packs
PeerTexts ==
    {JSONstringifyDIDComm(PeerEnvelope(Str(uri))) : uri \in PeerTypeURIs \cup ShortTypeURIs}
    \cup {JSONstringifyDIDComm(PeerEnvelope(v)) : v \in {undefined, [num |-> 42]}}
    \cup {Lit("null"), Lit("42"), Lit("{")}

\* one Message sent over the secure channel, or one message of a peer
NextDIDComm ==
    \/ \E body \in Bodies, sender \in Ids, t \in Clock(now) :
           packed = NoEnvelope /\ Construct(body, sender, PublicIdentity("bob"), t, 1)
    \/ \E id \in CallerIds : tasks[1].pc = "idle" /\ SetMessageId(1, id)
    \/ tasks[1].pc = "idle" /\ Encrypt(1)
    \/ ResolveReady
    \/ \E recipients \in RecipientLists, sender \in Ids, repudiable \in BOOLEAN :
           tasks[1].pc = "idle" /\ StartGetDIDComm(1, 1, recipients, sender, repudiable)
    \/ ResumeGetDIDComm(1)
    \/ \E text \in PeerTexts : CraftDIDComm("alice", text)
    \/ \E recipient \in Ids : tasks[2].pc = "idle" /\ StartDecryptDIDComm(2, recipient)
    \/ UnpackDIDComm(2)
    \/ FinishDecryptDIDComm(2)

SpecDIDComm == Init /\ [][NextDIDComm]_vars

\* concurrent calls of getDIDComm and decryptDIDComm on one Message
NextBarrier ==
    \/ Construct([type |-> MessageBodyType.REQUEST_TERMS, content |-> PlainContent],
                 "alice", PublicIdentity("bob"), now, 1)
    \/ ResolveReady
    \/ \E c \in Calls : StartGetDIDComm(c, 1, <<PublicIdentity("bob")>>, "alice", TRUE)
    \/ \E c \in Calls : ResumeGetDIDComm(c)
    \/ \E c \in Calls, recipient \in Ids : StartDecryptDIDComm(c, recipient)
    \/ \E c \in Calls : UnpackDIDComm(c)
    \/ \E c \in Calls : FinishDecryptDIDComm(c)

SpecBarrier == Init /\ [][NextBarrier]_vars

\* the continuation of the call of slot c that its awaited promise enables
Continue(c) == ResumeGetDIDComm(c) \/ UnpackDIDComm(c) \/ FinishDecryptDIDComm(c)

\* the event loop runs the continuation of every call whose awaited promise
\* has resolved
BarrierFairness == \A c \in Calls : WF_vars(Continue(c))

SpecBarrierFair == SpecBarrier /\ BarrierFairness

\* concurrent calls on one Message for either recipient list, and the
\* messages of a peer
NextInterleave ==
    \/ Construct([type |-> MessageBodyType.REQUEST_TERMS, content |-> PlainContent],
                 "alice", PublicIdentity("bob"), now, 1)
    \/ ResolveReady
    \/ \E c \in Calls, recipients \in RecipientLists :
           StartGetDIDComm(c, 1, recipients, "alice", TRUE)
    \/ \E c \in Calls : ResumeGetDIDComm(c)
    \/ \E c \in Calls, recipient \in Ids : StartDecryptDIDComm(c, recipient)
    \/ \E c \in Calls : UnpackDIDComm(c)
    \/ \E c \in Calls : FinishDecryptDIDComm(c)
    \/ Encrypt(1)
    \/ \E receiver \in Ids : Decrypt(receiver)

SpecInterleave == Init /\ [][NextInterleave]_vars

\* the strings isKnownMessageType is asked about: the values and the member
\* names of the enum, the values in capitals, with a character more, as the
\* end of a type URI, and strings that are no type at all
TypeStrings ==
    MessageBodyTypes
    \cup DOMAIN MessageBodyType
    \cup { "REQUEST-TERMS", "SUBMIT-TERMS", "REJECT-TERMS", "INITIATE-ATTESTATION",
           "REQUEST-ATTESTATION-FOR-CLAIM", "SUBMIT-ATTESTATION-FOR-CLAIM",
           "REJECT-ATTESTATION-FOR-CLAIM", "REQUEST-CLAIMS-FOR-CTYPES",
           "SUBMIT-CLAIMS-FOR-CTYPES-CLASSIC", "SUBMIT-CLAIMS-FOR-CTYPES-PE",
           "ACCEPT-CLAIMS-FOR-CTYPES", "REJECT-CLAIMS-FOR-CTYPES",
           "REQUEST-ACCEPT-DELEGATION", "SUBMIT-ACCEPT-DELEGATION",
           "REJECT-ACCEPT-DELEGATION", "INFORM-CREATE-DELEGATION",
           "Request-Terms", "request_terms", "requestTerms" }
    \cup {v \o "s" : v \in MessageBodyTypes}
    \cup {" " \o v : v \in MessageBodyTypes}
    \cup {v \o " " : v \in MessageBodyTypes}
    \cup {"kilt.io/kilt-messaging/0.19/" \o v : v \in MessageBodyTypes}
    \cup {"", "foo", PROTOCOL_NAME, "0", "undefined"}

\* isKnownMessageType(type) is called
IsKnownMessageType(type) ==
    /\ res' = [ op |-> "isKnownMessageType", err |-> "", entity |-> "", calls |-> <<>>,
                out |-> [known |-> isKnownMessageType(type)], arg |-> [type |-> type] ]
    /\ UNCHANGED <<msgs, now, rnd, env, orig>>
    /\ UNCHANGED dvars

NextKnown == \E type \in TypeStrings : IsKnownMessageType(type)

SpecKnown == Init /\ [][NextKnown]_vars

----------------------------------------------------------------------------
(* Blockchain: handing out account nonces *)

\* retrieveNonce(address): the stored nonce is returned and stored again, one higher
retrieveNonceKeeping(accountNonces, address) ==
    [ nonce |-> accountNonces[address], accountNonces |-> accountNonces ]

retrieveNonce(accountNonces, address) ==
    [ nonce |-> accountNonces[address],
      accountNonces |-> [accountNonces EXCEPT ![address] = @ + 1] ]

\* the queued call whose retrieveNonce runs next: the one queued first
nextInQueue(queue) == Head(queue)

\* chain.accountNonces.set(address, nonce), before any call for the account
SetAccountNonce(address, nonce) ==
    /\ address \notin DOMAIN chain.accountNonces
    /\ chain' = [chain EXCEPT !.accountNonces = (address :> nonce) @@ @,
                              !.initial = (address :> nonce) @@ @]
    /\ UNCHANGED mvars
    /\ UNCHANGED <<didcomm, tasks, packed, uuids>>

\* chain.getNonce(address) is called and its promise is not awaited: the call is queued
GetNonce(address) ==
    /\ address \in DOMAIN chain.accountNonces
    /\ Len(chain.calls) < MaxNonceCalls
    /\ chain' = [chain EXCEPT !.calls = Append(@, address),
                              !.queue = Append(@, Len(chain.calls) + 1)]
    /\ UNCHANGED mvars
    /\ UNCHANGED <<didcomm, tasks, packed, uuids>>

\* the queue runs retrieveNonce for its next call, whose promise resolves
RetrieveNonce ==
    /\ chain.queue # <<>>
    /\ \E call \in {nextInQueue(chain.queue)} :
       \E r \in {retrieveNonce(chain.accountNonces, chain.calls[call])} :
          chain' = [chain EXCEPT !.accountNonces = r.accountNonces,
                                 !.queue = Tail(@),
                                 !.resolved = (call :> r.nonce) @@ @]
    /\ UNCHANGED mvars
    /\ UNCHANGED <<didcomm, tasks, packed, uuids>>

NextNonce ==
    \/ \E address \in Addresses, nonce \in 0..MaxNonce : SetAccountNonce(address, nonce)
    \/ \E address \in Addresses : GetNonce(address)
    \/ RetrieveNonce

SpecNonce == Init /\ [][NextNonce]_vars

----------------------------------------------------------------------------
(* Message.ensureOwnerIsSender on the kinds whose content embeds owners *)

\* IPartialClaim: a claim whose owner may be absent
PartialClaims == {PlainContent} \cup {[cTypeHash |-> "0xabc", owner |-> o] : o \in Addresses}

\* IAttestedClaim[]: legitimations and the like
AttestedClaimLists == {[items |-> [i \in 1..Len(l) |-> AttestedClaim(l[i])]] : l \in OwnerLists}

\* IClaim[]: prerequisiteClaims
ClaimLists == {[items |-> [i \in 1..Len(l) |-> [cTypeHash |-> "0xabc", owner |-> l[i]]]] : l \in OwnerLists}

\* bodies of the kinds whose content type, as Message.ts declares it, has a place for an owner
OwnedBodies ==
    {[type |-> MessageBodyType.REQUEST_TERMS, content |-> c] : c \in PartialClaims}
    \cup {[type |-> MessageBodyType.REJECT_TERMS,
           content |-> [claim |-> c, legitimations |-> l, delegationId |-> "0xdel"]] :
              c \in PartialClaims, l \in AttestedClaimLists}
    \cup {[type |-> MessageBodyType.REJECT_TERMS,
           content |-> [claim |-> c, legitimations |-> l]] : c \in PartialClaims, l \in AttestedClaimLists}
    \cup {[type |-> MessageBodyType.REQUEST_ATTESTATION_FOR_CLAIM,
           content |-> [requestForAttestation |-> [claim |-> [owner |-> o]], prerequisiteClaims |-> l]] :
              o \in Addresses, l \in ClaimLists}
    \cup {[type |-> MessageBodyType.SUBMIT_ATTESTATION_FOR_CLAIM, content |-> AttestationContent(o)] : o \in Addresses}
    \cup {[type |-> MessageBodyType.SUBMIT_CLAIMS_FOR_CTYPES_CLASSIC, content |-> ClaimsContent(l)] : l \in OwnerLists}

\* Message.ensureOwnerIsSender({ body, senderAddress }) on a message a caller holds
EnsureOwnerIsSenderOf(body, senderAddress) ==
    /\ LET c == ensureOwnerIsSender(body, senderAddress)
       IN  res' = [ op |-> "ensureOwnerIsSender", err |-> c.err, entity |-> c.entity,
                    calls |-> c.calls, out |-> NoMessage,
                    arg |-> [body |-> body, senderAddress |-> senderAddress] ]
    /\ UNCHANGED <<msgs, now, rnd, env, orig>>
    /\ UNCHANGED dvars

NextOwner == \E body \in OwnedBodies, senderAddress \in Addresses : EnsureOwnerIsSenderOf(body, senderAddress)

SpecOwner == Init /\ [][NextOwner]_vars

----------------------------------------------------------------------------
(* The hash input message + nonce + createdAt, cut at other places *)

\* str is the decimal text of a number
IsDigits(str) == Len(str) > 0 /\ \A k \in DOMAIN str : "d" \in DOMAIN str[k]

\* the envelopes with the hash and signature of e whose message, nonce and
\* createdAt are the string message + nonce + createdAt of e cut at other places
Shifted(e) ==
    LET all == e.message \o e.nonce \o NumToStr(e.createdAt)
        n   == Len(all)
    IN  { [e EXCEPT !.message = SubSeq(all, 1, i),
                    !.nonce = SubSeq(all, i + 1, j),
                    !.createdAt = StrToNum(SubSeq(all, j + 1, n))] :
            <<i, j>> \in {c \in (0..n) \X (0..n) :
                            c[1] <= c[2] /\ c[2] < n /\ IsDigits(SubSeq(all, c[2] + 1, n))} }
        \ {e}

\* the wire delivers e, cut differently, instead of the envelope that was sent
Shift(e) ==
    /\ orig.by # ""
    /\ env = orig.envelope
    /\ e \in Shifted(orig.envelope)
    /\ env' = e
    /\ res' = Step("shift")
    /\ UNCHANGED <<msgs, now, rnd, orig>>
    /\ UNCHANGED dvars

\* one envelope of a Message, delivered as sent or cut differently
NextShift ==
    \/ \E body \in WireBodies, sender \in Ids, t \in Clock(now) :
           Construct(body, sender, PublicIdentity("bob"), t, 1)
    \/ Encrypt(1)
    \/ orig.by # "" /\ \E e \in Shifted(orig.envelope) : Shift(e)
    \/ \E a \in Addresses : EnsureHashAndSignature(a)

SpecShift == Init /\ [][NextShift]_vars

\* one Message whose caller assigns messageId and receivedAt, encrypts it and
\* calls getDIDComm on it, in any order and any number of times
NextImmutable ==
    \/ \E body \in WireBodies, sender \in Ids :
           Construct(body, sender, PublicIdentity("bob"), now, 1)
    \/ \E id \in CallerIds : SetMessageId(1, id)
    \/ SetReceivedAt(1, now + 1)
    \/ Encrypt(1)
    \/ ResolveReady
    \/ \E sender \in Ids : StartGetDIDComm(1, 1, <<PublicIdentity("bob")>>, sender, TRUE)
    \/ ResumeGetDIDComm(1)

SpecImmutable == Init /\ [][NextImmutable]_vars

----------------------------------------------------------------------------
(* Did.utils.ts: strings are sequences of characters *)

KILT_DID_PREFIX == <<"d", "i", "d", ":", "k", "i", "l", "t", ":">>

\* String.prototype.startsWith
startsWith(str, search) ==
    Len(str) >= Len(search) /\ SubSeq(str, 1, Len(search)) = search

\* String.prototype.substr(from)
substr(str, from) == SubSeq(str, from + 1, Len(str))

\* a value a function returns
Ok(out) == [err |-> "", out |-> out]

getDidFromIdentifier(identifier) == KILT_DID_PREFIX \o identifier

\* getIdentifierFromDid without the check of the prefix
getIdentifierUnchecked(did) == Ok(Str(substr(did, Len(KILT_DID_PREFIX))))

getIdentifierFromDid(did) ==
    IF ~startsWith(did, KILT_DID_PREFIX)
    THEN Failed("ERROR_INVALID_DID_PREFIX")
    ELSE Ok(Str(substr(did, Len(KILT_DID_PREFIX))))

\* the characters identifiers are made of here
IdentifierChars == {"5", "G", ":"}

\* identifiers: every string of up to MaxIdLen characters, and ones that
\* themselves begin like a DID
Identifiers ==
    LET short == UNION {[1..n -> IdentifierChars] : n \in 0..MaxIdLen}
    IN  short \cup {KILT_DID_PREFIX \o s : s \in short} \cup {<<"d", "i", "d", ":">> \o s : s \in short}

\* what a DID that is none begins with: parts and variants of the prefix
OtherPrefixes ==
    { <<>>, <<"d", "i", "d", ":", "k", "i", "l", "t">>, <<"d", "i", "d", ":">>, <<"d", "i", "d", ":", "K", "I", "L", "T", ":">>, <<"D", "i", "d", ":", "k", "i", "l", "t", ":">>, <<" ", "d", "i", "d", ":", "k", "i", "l", "t", ":">>, <<"d", "i", "d", ":", "s", "o", "v", ":">>, <<"k", "i", "l", "t", ":">> }

Dids ==
    {getDidFromIdentifier(x) : x \in Identifiers}
    \cup {p \o x : p \in OtherPrefixes, x \in UNION {[1..n -> IdentifierChars] : n \in 0..MaxIdLen}}

(* Did.utils.ts: JavaScript values *)

null == [null |-> TRUE]

Num(n) == [num |-> n]

Bool(b) == [bool |-> b]

\* a Uint8Array
U8a(x) == [u8a |-> x]

\* an array
Arr(items) == [items |-> items]

\* a function
Fn(name) == [function |-> name]

\* an object with its own properties
Obj(fields) == [obj |-> fields]

IsNull(v) == "null" \in DOMAIN v

\* the typeof operator
typeof(v) ==
    IF "undefined" \in DOMAIN v THEN "undefined"
    ELSE IF "num" \in DOMAIN v THEN "number"
    ELSE IF "str" \in DOMAIN v THEN "string"
    ELSE IF "bool" \in DOMAIN v THEN "boolean"
    ELSE IF "function" \in DOMAIN v THEN "function"
    ELSE "object"

\* ToBoolean
isTruthy(v) ==
    IF "undefined" \in DOMAIN v \/ IsNull(v) THEN FALSE
    ELSE IF "num" \in DOMAIN v THEN v.num # 0
    ELSE IF "str" \in DOMAIN v THEN v.str # <<>>
    ELSE IF "bool" \in DOMAIN v THEN v.bool
    ELSE TRUE

\* reading property name of a value that is neither null nor undefined
Get(v, name) ==
    IF "obj" \in DOMAIN v /\ name \in DOMAIN v.obj THEN v.obj[name] ELSE undefined

\* publicKey instanceof Uint8Array
instanceofUint8Array(v) == "u8a" \in DOMAIN v

\* IPublicKey
KeyObj(type, key) == Obj([type |-> Str(type), publicKey |-> U8a(key)])

\* formatPublicKey: { [type]: publicKey }
formatPublicKey(keypair) == Obj(Get(keypair, "type").str :> Get(keypair, "publicKey"))

\* isIKeyPair: destructuring null throws a TypeError
isIKeyPair(keypair) ==
    IF typeof(keypair) = "object"
    THEN IF IsNull(keypair) THEN Failed("TypeError")
         ELSE Ok(Bool(/\ instanceofUint8Array(Get(keypair, "publicKey"))
                      /\ typeof(Get(keypair, "type")) = "string"))
    ELSE Ok(Bool(FALSE))

\* the prefixes encodeEndpointUrl knows, with https for http
UrlTypesHttps == <<<<"h", "t", "t", "p", "s">>, <<"f", "t", "p">>, <<"i", "p", "f", "s">>>>

\* the prefixes encodeEndpointUrl knows, in the order it tries them
UrlTypes == <<<<"h", "t", "t", "p">>, <<"f", "t", "p">>, <<"i", "p", "f", "s">>>>

\* Array.prototype.some with the callback of encodeEndpointUrl: it stops at
\* the first type the url starts with and records the url under it
RECURSIVE someType(_, _, _)
someType(types, url, typedUrl) ==
    IF types = <<>> THEN [matched |-> FALSE, typedUrl |-> typedUrl]
    ELSE IF startsWith(url, Head(types))
        THEN [matched |-> TRUE, typedUrl |-> (Join(Head(types)) :> [payload |-> url]) @@ typedUrl]
    ELSE someType(Tail(types), url, typedUrl)

encodeEndpointUrl(url) ==
    LET found == someType(UrlTypes, url, <<>>)
    IN  IF ~found.matched
        THEN Failed("only endpoint urls starting with http/https, ftp, and ipfs are accepted")
        ELSE Ok(Obj(found.typedUrl))

\* typeRegistry.getOrThrow(name): the registry is the set of the names it knows
getOrThrow(typeRegistry, name) ==
    IF name \in typeRegistry THEN Ok(Fn(name)) ELSE Failed("getOrThrow: type not found")

\* new (constructor)(typeRegistry, raw)
Construction(constructor, raw) == [type |-> constructor.out.function, raw |-> raw]

\* endpointUrl ? encodeEndpointUrl(endpointUrl) : undefined
encodeOptionalUrl(endpointUrl) ==
    IF isTruthy(endpointUrl) THEN encodeEndpointUrl(endpointUrl.str) ELSE Ok(undefined)

encodeDidCreate(typeRegistry, did, keys, endpointUrl) ==
    LET identifier  == getIdentifierFromDid(did)
        url         == encodeOptionalUrl(endpointUrl)
        constructor == getOrThrow(typeRegistry, "DidCreationOperation")
        didCreateRaw ==
            [ did                   |-> identifier.out,
              newAuthenticationKey  |-> formatPublicKey(Get(keys, "authentication")),
              newKeyAgreementKeys   |-> Arr(<<formatPublicKey(Get(keys, "encryption"))>>),
              newAttestationKey     |-> IF isTruthy(Get(keys, "attestation"))
                                        THEN formatPublicKey(Get(keys, "attestation")) ELSE undefined,
              newDelegationKey      |-> IF isTruthy(Get(keys, "delegation"))
                                        THEN formatPublicKey(Get(keys, "delegation")) ELSE undefined,
              newEndpointUrl        |-> url.out ]
    IN  IF identifier.err # "" THEN Failed(identifier.err)
        ELSE IF url.err # "" THEN Failed(url.err)
        ELSE IF constructor.err # "" THEN Failed(constructor.err)
        ELSE Ok(Construction(constructor, didCreateRaw))

\* matchKeyOperation deleting every key that is not given
matchKeyDeleting(keypair) ==
    IF isTruthy(keypair) /\ typeof(keypair) = "object"
    THEN Obj([Change |-> formatPublicKey(keypair)])
    ELSE Obj([Delete |-> null])

matchKeyOperation(keypair) ==
    IF isTruthy(keypair) /\ typeof(keypair) = "object"
    THEN Obj([Change |-> formatPublicKey(keypair)])
    ELSE IF IsNull(keypair) THEN Obj([Delete |-> null])
    ELSE Obj([Ignore |-> null])

encodeDidUpdate(typeRegistry, did, txCounter, keysToUpdate, verificationKeysToRemove, newEndpointUrl) ==
    LET authentication == Get(keysToUpdate, "authentication")
        encryption     == Get(keysToUpdate, "encryption")
        attestation    == Get(keysToUpdate, "attestation")
        delegation     == Get(keysToUpdate, "delegation")
        identifier     == getIdentifierFromDid(did)
        url            == encodeOptionalUrl(newEndpointUrl)
        constructor    == getOrThrow(typeRegistry, "DidUpdateOperation")
        didUpdateRaw ==
            [ did                      |-> identifier.out,
              newAuthKey               |-> IF isTruthy(authentication)
                                           THEN formatPublicKey(authentication) ELSE null,
              newKeyAgreementKey       |-> IF isTruthy(encryption)
                                           THEN Arr(<<formatPublicKey(encryption)>>) ELSE Arr(<<>>),
              newAttestationKey        |-> matchKeyOperation(attestation),
              newDelegationKey         |-> matchKeyOperation(delegation),
              verificationKeysToRemove |-> verificationKeysToRemove,
              newEndpointUrl           |-> url.out,
              txCounter                |-> txCounter ]
    IN  IF identifier.err # "" THEN Failed(identifier.err)
        ELSE IF url.err # "" THEN Failed(url.err)
        ELSE IF constructor.err # "" THEN Failed(constructor.err)
        ELSE Ok(Construction(constructor, didUpdateRaw))

\* encodeDidDelete: the constructor is looked up before the arguments of new
\* are evaluated
encodeDidDelete(typeRegistry, did, txCounter) ==
    LET constructor == getOrThrow(typeRegistry, "DidDeletionOperation")
        identifier  == getIdentifierFromDid(did)
    IN  IF constructor.err # "" THEN Failed(constructor.err)
        ELSE IF identifier.err # "" THEN Failed(identifier.err)
        ELSE Ok(Construction(constructor, [did |-> identifier.out, txCounter |-> txCounter]))

(* Did.utils.ts: the calls and their arguments *)

\* what a call of a function of Did.utils.ts leaves: its arguments and outcome
Outcome(op, arg, r) ==
    [op |-> op, err |-> r.err, entity |-> "", calls |-> <<>>, out |-> r.out, arg |-> arg]

\* The functions of Did.utils.ts keep no state: a run is one call.

GetIdentifierFromDid(did) ==
    /\ res.op = ""
    /\ res' = Outcome("getIdentifierFromDid", [did |-> did], getIdentifierFromDid(did))
    /\ UNCHANGED <<msgs, now, rnd, env, orig>>
    /\ UNCHANGED dvars

EncodeEndpointUrl(url) ==
    /\ res.op = ""
    /\ res' = Outcome("encodeEndpointUrl", [url |-> url], encodeEndpointUrl(url))
    /\ UNCHANGED <<msgs, now, rnd, env, orig>>
    /\ UNCHANGED dvars

IsIKeyPair(keypair) ==
    /\ res.op = ""
    /\ res' = Outcome("isIKeyPair", [keypair |-> keypair], isIKeyPair(keypair))
    /\ UNCHANGED <<msgs, now, rnd, env, orig>>
    /\ UNCHANGED dvars

EncodeDidCreate(typeRegistry, did, keys, endpointUrl) ==
    /\ res.op = ""
    /\ res' = Outcome("encodeDidCreate",
                      [typeRegistry |-> typeRegistry, did |-> did, keys |-> keys,
                       endpointUrl |-> endpointUrl],
                      encodeDidCreate(typeRegistry, did, keys, endpointUrl))
    /\ UNCHANGED <<msgs, now, rnd, env, orig>>
    /\ UNCHANGED dvars

EncodeDidUpdate(typeRegistry, did, keysToUpdate, newEndpointUrl) ==
    /\ res.op = ""
    /\ res' = Outcome("encodeDidUpdate",
                      [typeRegistry |-> typeRegistry, did |-> did, keysToUpdate |-> keysToUpdate,
                       newEndpointUrl |-> newEndpointUrl],
                      encodeDidUpdate(typeRegistry, did, 1, keysToUpdate, Arr(<<>>), newEndpointUrl))
    /\ UNCHANGED <<msgs, now, rnd, env, orig>>
    /\ UNCHANGED dvars

EncodeDidDelete(typeRegistry, did) ==
    /\ res.op = ""
    /\ res' = Outcome("encodeDidDelete", [typeRegistry |-> typeRegistry, did |-> did],
                      encodeDidDelete(typeRegistry, did, 1))
    /\ UNCHANGED <<msgs, now, rnd, env, orig>>
    /\ UNCHANGED dvars

\* a registry that knows the three operations, and one that knows none
TypeRegistries == {{"DidCreationOperation", "DidUpdateOperation", "DidDeletionOperation"}, {}}

\* the DIDs the operations are encoded for
EncodeDids == {did \in Dids : Len(did) <= Len(KILT_DID_PREFIX) + 1}

UrlSchemes == { <<"h", "t", "t", "p">>, <<"h", "t", "t", "p", "s">>, <<"f", "t", "p">>, <<"f", "t", "p", "s">>, <<"i", "p", "f", "s">>, <<"i", "p", "f">>, <<"h", "t", "t">>, <<"w", "s">>, <<"H", "T", "T", "P">>, <<"x", "h", "t", "t", "p">>, <<" ", "h", "t", "t", "p">>, <<"f", "i", "l", "e">>, <<"f", "t">>, <<"i", "p", "n", "s">> }

EndpointUrls == {scheme \o rest : scheme \in UrlSchemes, rest \in {<<>>, <<":", "/", "/", "a">>}} \cup {<<>>}

\* the optional endpoint url of encodeDidCreate and encodeDidUpdate
OptionalUrls == {undefined, Str(<<>>), Str(<<"h", "t", "t", "p", "s", ":", "/", "/", "a">>), Str(<<"i", "p", "f", "s", ":", "/", "/", "a">>), Str(<<"w", "s", ":", "/", "/", "a">>)}

KeyNames == {"authentication", "encryption", "attestation", "delegation"}

\* an object with the properties of f that are not undefined
Defined(f) == Obj([name \in {n \in DOMAIN f : f[n] # undefined} |-> f[name]])

\* PublicKeySet: authentication and encryption, attestation and delegation optional
PublicKeySets ==
    { Defined([authentication |-> KeyObj("ed25519", "auth"), encryption |-> KeyObj("x25519", "enc"),
               attestation |-> a, delegation |-> d]) :
        a \in {undefined, KeyObj("sr25519", "att")}, d \in {undefined, KeyObj("ed25519", "del")} }

\* Partial<Nullable<PublicKeySet>>: every key absent, null or a key
KeysToUpdate ==
    { Defined([name \in KeyNames |-> IF f[name] = "key" THEN KeyObj("ed25519", name)
                                     ELSE IF f[name] = "null" THEN null ELSE undefined]) :
        f \in [KeyNames -> {"absent", "null", "key"}] }

\* the values isIKeyPair is asked about
KeyPairValues ==
    { undefined, null, Num(0), Num(42), Str("ed25519"), Bool(TRUE), Bool(FALSE), Fn("f"),
      U8a("k"), Arr(<<>>), Arr(<<U8a("k"), Str("ed25519")>>), Obj(<<>>) }
    \cup { Defined([publicKey |-> p, type |-> t, sign |-> x]) :
             p \in {undefined, null, U8a("k"), Str("0x6b"), Arr(<<Num(107)>>), Num(107)},
             t \in {undefined, null, Str("ed25519"), Str(""), Num(1), Bool(TRUE)},
             x \in {undefined, Fn("sign")} }

NextDid ==
    \/ res.op = "" /\ \E did \in Dids : GetIdentifierFromDid(did)
    \/ res.op = "" /\ \E url \in EndpointUrls : EncodeEndpointUrl(url)
    \/ res.op = "" /\ \E keypair \in KeyPairValues : IsIKeyPair(keypair)
    \/ res.op = "" /\ \E typeRegistry \in TypeRegistries, did \in EncodeDids, keys \in PublicKeySets, endpointUrl \in OptionalUrls :
           EncodeDidCreate(typeRegistry, did, keys, endpointUrl)
    \/ res.op = "" /\ \E typeRegistry \in TypeRegistries, did \in EncodeDids, keysToUpdate \in KeysToUpdate,
          newEndpointUrl \in OptionalUrls :
           EncodeDidUpdate(typeRegistry, did, keysToUpdate, newEndpointUrl)
    \/ res.op = "" /\ \E typeRegistry \in TypeRegistries, did \in EncodeDids : EncodeDidDelete(typeRegistry, did)

SpecDid == Init /\ [][NextDid]_vars

----------------------------------------------------------------------------
(* Delegation.ts: DelegationBaseNode.getChildren *)

\* the ids under which child records are fetched
ChildIds == {"0xc1", "0xc2", "0xc3"}

\* the chain records of children: an empty record and records of two nodes
ChildCodecs == {[raw |-> "empty"], [raw |-> "alice"], [raw |-> "bob"]}

\* CodecWithId
CodecsWithId == {[id |-> id, codec |-> codec] : id \in ChildIds, codec \in ChildCodecs}

\* decodeChildNode, abstract in DelegationBaseNode: a new DelegationNode, which
\* has the id the record holds, or null for an empty record
decodeChildNode(queryResult) ==
    IF queryResult.raw = "empty" THEN null
    ELSE [id |-> "0x00", account |-> Address(queryResult.raw), revoked |-> FALSE]

\* the callback of map without the assignment of the id
decodedAsStored(codec) == decodeChildNode(codec.codec)

\* the callback of map: the decoded node with the id of the codec, or null
decodedWithId(codec) ==
    LET decoded == decodeChildNode(codec.codec)
    IN  IF ~IsNull(decoded) THEN [decoded EXCEPT !.id = codec.id] ELSE decoded

\* Array.prototype.map with that callback
RECURSIVE mapDecoded(_)
mapDecoded(queryResults) ==
    IF queryResults = <<>> THEN <<>>
    ELSE <<decodedWithId(Head(queryResults))>> \o mapDecoded(Tail(queryResults))

\* Array.prototype.filter with value !== null
RECURSIVE filterNotNull(_)
filterNotNull(values) ==
    IF values = <<>> THEN <<>>
    ELSE (IF IsNull(Head(values)) THEN <<>> ELSE <<Head(values)>>) \o filterNotNull(Tail(values))

\* getChildren after fetchChildren has resolved to queryResults
getChildren(queryResults) == filterNotNull(mapDecoded(queryResults))

\* node.getChildren() with the records the chain returns for the children
GetChildren(queryResults) ==
    /\ res.op = ""
    /\ res' = Outcome("getChildren", [queryResults |-> queryResults],
                      Ok(Arr(getChildren(queryResults))))
    /\ UNCHANGED <<msgs, now, rnd, env, orig>>
    /\ UNCHANGED dvars

NextChildren ==
    res.op = "" /\ \E queryResults \in UNION {[1..n -> CodecsWithId] : n \in 0..MaxChildren} :
                       GetChildren(queryResults)

SpecChildren == Init /\ [][NextChildren]_vars

----------------------------------------------------------------------------
(* Properties *)

Range(s) == {s[i] : i \in DOMAIN s}

IsPrefix(s, t) == Len(s) <= Len(t) /\ SubSeq(t, 1, Len(s)) = s

DiffersInOneByte(s, t) == Len(s) = Len(t) /\ Cardinality({i \in DOMAIN s : s[i] # t[i]}) = 1

\* hash is the digest of message, nonce, createdAt in this order
HashMatches(e) == e.hash = hashStr(e.message \o e.nonce \o NumToStr(e.createdAt))

\* signature is a signature over hash made with the signing key of address
SignedBy(e, address) == e.signature.over = e.hash /\ Address(e.signature.signer.spk) = address

\* the steps of decrypt in their order
DecryptSteps == <<"hashStr", "validateSignature", "decryptAsymmetricAsStr", "JSON.parse", "ensureOwnerIsSender">>

\* e is o with a different ciphertext and everything hashed or signed else as in o
MessageCorrupted(e, o) ==
    /\ e.message # o.message
    /\ e.nonce = o.nonce /\ e.createdAt = o.createdAt
    /\ e.hash = o.hash /\ e.signature = o.signature

\* e is o with one byte of message, of nonce or of createdAt changed
OneByteChanged(e, o) ==
    /\ e.hash = o.hash /\ e.signature = o.signature
    /\ \/ DiffersInOneByte(e.message, o.message) /\ e.nonce = o.nonce /\ e.createdAt = o.createdAt
       \/ DiffersInOneByte(e.nonce, o.nonce) /\ e.message = o.message /\ e.createdAt = o.createdAt
       \/ /\ DiffersInOneByte(NumToStr(e.createdAt), NumToStr(o.createdAt))
          /\ e.message = o.message /\ e.nonce = o.nonce

\* the last step was decrypt, by the addressee, of the envelope encrypt() returned
DecryptedAsSent ==
    /\ res.op = "decrypt"
    /\ orig.by = "encrypt"
    /\ res.arg.encrypted = orig.envelope
    /\ Address(res.arg.receiver) = orig.envelope.receiverAddress

\* every owner the checked kinds embed in body is address
OwnersAre(body, address) ==
    /\ body.type = MessageBodyType.REQUEST_ATTESTATION_FOR_CLAIM
           => body.content.requestForAttestation.claim.owner = address
    /\ body.type = MessageBodyType.SUBMIT_ATTESTATION_FOR_CLAIM
           => body.content.attestation.owner = address
    /\ body.type = MessageBodyType.SUBMIT_CLAIMS_FOR_CTYPES_CLASSIC
           => \A i \in DOMAIN body.content.items : body.content.items[i].request.claim.owner = address

\* C1: decrypt makes its calls in the order hashStr, validateSignature,
\* decryptAsymmetricAsStr, JSON.parse, ensureOwnerIsSender; it never opens the
\* box of an envelope whose hash or signature check fails; an envelope whose
\* message field was corrupted is rejected with ERROR_NONCE_HASH_INVALID
C1_DecryptOrder ==
    res.op = "decrypt" =>
        LET e == res.arg.encrypted
        IN  /\ IsPrefix(res.calls, DecryptSteps)
            /\ ~(HashMatches(e) /\ SignedBy(e, e.senderAddress))
                   => /\ "decryptAsymmetricAsStr" \notin Range(res.calls)
                      /\ res.err \in {"ERROR_NONCE_HASH_INVALID", "ERROR_SIGNATURE_UNVERIFIABLE"}
            /\ MessageCorrupted(e, orig.envelope) => res.err = "ERROR_NONCE_HASH_INVALID"

C1_Witness ==
    /\ res.op = "decrypt"
    /\ MessageCorrupted(res.arg.encrypted, orig.envelope)
    /\ res.err = "ERROR_NONCE_HASH_INVALID"
    /\ res.calls = <<"hashStr">>

\* C2 as stated: decrypt by the addressee of the envelope of any constructed
\* Message succeeds and returns the body the Message was constructed with
C2_RoundTripAnyBody ==
    DecryptedAsSent => res.err = "" /\ res.out.body = msgs[1].body

\* C2 amended: decrypt by the addressee of the envelope of a constructed
\* Message succeeds and returns the body the Message was constructed with,
\* provided every owner a checked kind of body embeds is the sender's address
C2_RoundTrip ==
    DecryptedAsSent /\ OwnersAre(msgs[1].body, msgs[1].senderAddress)
        => res.err = "" /\ res.out.body = msgs[1].body

C2_Witness ==
    /\ DecryptedAsSent
    /\ msgs[1].senderAddress = Address("alice")
    /\ msgs[1].body.type = MessageBodyType.REQUEST_TERMS
    /\ res.err = ""
    /\ res.out.body.content.cTypeHash = "0xabc"

\* C3: ensureHashAndSignature throws ERROR_NONCE_HASH_INVALID for an envelope
\* of encrypt() in which one byte of message, nonce or createdAt was changed
C3_TamperDetected ==
    (/\ res.op = "ensureHashAndSignature"
     /\ orig.by = "encrypt"
     /\ OneByteChanged(res.arg.encrypted, orig.envelope))
        => res.err = "ERROR_NONCE_HASH_INVALID"

C3_Witness ==
    /\ res.op = "ensureHashAndSignature"
    /\ orig.by = "encrypt"
    /\ OneByteChanged(res.arg.encrypted, orig.envelope)
    /\ res.arg.encrypted.nonce # orig.envelope.nonce
    /\ res.arg.senderAddress = orig.envelope.senderAddress
    /\ res.err = "ERROR_NONCE_HASH_INVALID"

\* C4: ensureHashAndSignature throws the signature error for an envelope whose
\* hash matches and whose signature over the hash was made with a key that is
\* not the one of the claimed sender address; validateSignature is called only
\* when the hash comparison has passed
C4_SignatureBinding ==
    res.op = "ensureHashAndSignature" =>
        LET e == res.arg.encrypted
        IN  /\ (/\ HashMatches(e)
                /\ e.signature.over = e.hash
                /\ Address(e.signature.signer.spk) # res.arg.senderAddress)
                   => res.err = "ERROR_SIGNATURE_UNVERIFIABLE"
            /\ "validateSignature" \in Range(res.calls) => HashMatches(e)

C4_Witness ==
    /\ res.op = "ensureHashAndSignature"
    /\ HashMatches(res.arg.encrypted)
    /\ res.arg.encrypted.signature.over = res.arg.encrypted.hash
    /\ res.arg.encrypted.message # orig.envelope.message
    /\ res.arg.senderAddress = res.arg.encrypted.senderAddress
    /\ Address(res.arg.encrypted.signature.signer.spk) # res.arg.senderAddress
    /\ res.err = "ERROR_SIGNATURE_UNVERIFIABLE"

\* C5: decrypt of the untouched envelope of a REQUEST_ATTESTATION_FOR_CLAIM
\* Message whose claim owner is not the sender throws ERROR_IDENTITY_MISMATCH
C5_IdentityMismatch ==
    (/\ DecryptedAsSent
     /\ msgs[1].body.type = MessageBodyType.REQUEST_ATTESTATION_FOR_CLAIM
     /\ msgs[1].body.content.requestForAttestation.claim.owner # msgs[1].senderAddress)
        => res.err = "ERROR_IDENTITY_MISMATCH"

\* C6: ensureOwnerIsSender throws exactly when the claim owner of a
\* REQUEST_ATTESTATION_FOR_CLAIM ('Claim'), the attestation owner of a
\* SUBMIT_ATTESTATION_FOR_CLAIM ('Attestation') or the owner of some claim of a
\* SUBMIT_CLAIMS_FOR_CTYPES_CLASSIC ('Claims') is not senderAddress; it returns
\* for the 13 other kinds and for an empty list of claims
C6_OwnerIsSender ==
    res.op = "ensureOwnerIsSender" =>
        LET body == res.arg.body
            senderAddress == res.arg.senderAddress
        IN  IF body.type = MessageBodyType.REQUEST_ATTESTATION_FOR_CLAIM
                THEN IF body.content.requestForAttestation.claim.owner # senderAddress
                     THEN res.err = "ERROR_IDENTITY_MISMATCH" /\ res.entity = "Claim"
                     ELSE res.err = ""
            ELSE IF body.type = MessageBodyType.SUBMIT_ATTESTATION_FOR_CLAIM
                THEN IF body.content.attestation.owner # senderAddress
                     THEN res.err = "ERROR_IDENTITY_MISMATCH" /\ res.entity = "Attestation"
                     ELSE res.err = ""
            ELSE IF body.type = MessageBodyType.SUBMIT_CLAIMS_FOR_CTYPES_CLASSIC
                THEN IF \E i \in DOMAIN body.content.items :
                            body.content.items[i].request.claim.owner # senderAddress
                     THEN res.err = "ERROR_IDENTITY_MISMATCH" /\ res.entity = "Claims"
                     ELSE res.err = ""
            ELSE res.err = ""

C6_Witness ==
    /\ res.op = "ensureOwnerIsSender"
    /\ res.arg.body.type = MessageBodyType.SUBMIT_CLAIMS_FOR_CTYPES_CLASSIC
    /\ Len(res.arg.body.content.items) = 2
    /\ res.arg.body.content.items[1].request.claim.owner = res.arg.senderAddress
    /\ res.arg.body.content.items[2].request.claim.owner # res.arg.senderAddress
    /\ res.err = "ERROR_IDENTITY_MISMATCH"
    /\ res.entity = "Claims"

\* C7: the envelope encrypt() returns has hash = digest(message, nonce,
\* createdAt) and a signature over hash by the key of its senderAddress, and
\* ensureHashAndSignature(envelope, envelope.senderAddress) returns, also when
\* messageId or receivedAt of the Message were assigned before
C7_EnvelopeVerifies ==
    /\ res.op = "encrypt" => HashMatches(res.out) /\ SignedBy(res.out, res.out.senderAddress)
    /\ (/\ res.op = "ensureHashAndSignature"
        /\ orig.by = "encrypt"
        /\ res.arg.encrypted = orig.envelope
        /\ res.arg.senderAddress = orig.envelope.senderAddress)
           => res.err = ""

C7_Witness ==
    /\ res.op = "ensureHashAndSignature"
    /\ orig.by = "encrypt"
    /\ res.arg.encrypted = orig.envelope
    /\ res.arg.senderAddress = orig.envelope.senderAddress
    /\ res.arg.encrypted.messageId # NoId
    /\ res.arg.encrypted.receivedAt # NoTime
    /\ res.err = ""

\* C8: when hash and signature of the envelope pass, decrypt throws
\* ERROR_DECODING_MESSAGE if and only if the box does not open, and
\* ERROR_PARSING_MESSAGE whenever the box opens to a text that is not JSON
C8_DecodingVsParsing ==
    (res.op = "decrypt" /\ res.err \notin {"ERROR_NONCE_HASH_INVALID", "ERROR_SIGNATURE_UNVERIFIABLE"}) =>
        LET e == res.arg.encrypted
            decoded == decryptAsymmetricAsStr(res.arg.receiver,
                           [box |-> e.message, nonce |-> e.nonce], e.senderBoxPublicKey)
        IN  /\ ~decoded.ok <=> res.err = "ERROR_DECODING_MESSAGE"
            /\ (decoded.ok /\ ~JSONparse(decoded.str).ok) => res.err = "ERROR_PARSING_MESSAGE"

\* C9: the constructor given a receiver whose box public key is missing or
\* malformed throws before it calls encryptAsymmetricAsStr, hashStr or signStr,
\* and constructs no Message
C9_BadKeyFailsFast ==
    (res.op = "new Message" /\ ~IsBoxPublicKey(res.arg.receiver.boxPublicKeyAsHex))
        => res.err # "" /\ res.calls = <<>> /\ res.out = NoMessage

\* C10: any two Messages constructed in a run have different nonces and
\* different hashes, and so have the envelopes encrypt() returns for them
C10_NonceFresh ==
    \A i, j \in DOMAIN msgs :
        i # j => /\ encrypt(msgs[i]).nonce # encrypt(msgs[j]).nonce
                 /\ encrypt(msgs[i]).hash # encrypt(msgs[j]).hash

C10_Witness ==
    /\ Len(msgs) = 2
    /\ msgs[1].body = msgs[2].body
    /\ msgs[1].senderAddress = msgs[2].senderAddress
    /\ msgs[1].receiverAddress = msgs[2].receiverAddress
    /\ msgs[1].createdAt = msgs[2].createdAt
    /\ res.op = "encrypt"
    /\ res.out.nonce = msgs[2].nonce
    /\ res.out.nonce # msgs[1].nonce

----------------------------------------------------------------------------
(* Properties of the secure-channel adapter *)

\* the call of slot c is a decryptDIDComm that settled after unpackMessage
\* accepted the recipient's key
Unpacked(c) ==
    /\ tasks[c].pc = "done"
    /\ tasks[c].op = "decryptDIDComm"
    /\ tasks[c].err # "unpackMessage rejected"

\* the text that was packed into the message the call of slot c was given
PackedText(c) == tasks[c].arg.message.sealed

\* the packed text is a JSON object with a string as its '@type'
HasTypeString(c) ==
    /\ "obj" \in DOMAIN PackedText(c)
    /\ "@type" \in DOMAIN PackedText(c).obj
    /\ "str" \in DOMAIN PackedText(c).obj["@type"]

TypeURI(c) == PackedText(c).obj["@type"].str

\* uri ends in delimiter, name, "/", version, "/", type, each a single token
FourPart(uri) ==
    /\ Len(uri) >= 6
    /\ uri[Len(uri) - 5] \in Delimiters
    /\ uri[Len(uri) - 3] = "/"
    /\ uri[Len(uri) - 1] = "/"
    /\ {uri[Len(uri) - 4], uri[Len(uri) - 2], uri[Len(uri)]} \cap Delimiters = {}

UriName(uri) == uri[Len(uri) - 4]

UriVersion(uri) == uri[Len(uri) - 2]

UriType(uri) == uri[Len(uri)]

\* name and type are written over [a-z0-9._-] and version over [0-9.]
InPattern(uri) ==
    /\ UriName(uri) \in LowerWords \cup VersionWords
    /\ UriVersion(uri) \in VersionWords
    /\ UriType(uri) \in LowerWords \cup VersionWords

\* the type URI of slot c names another protocol name or another version
OtherProtocol(c) ==
    /\ Unpacked(c)
    /\ HasTypeString(c)
    /\ FourPart(TypeURI(c))
    /\ UriName(TypeURI(c)) # "kilt-messaging" \/ UriVersion(TypeURI(c)) # "0.19"

\* C11 as stated: decryptDIDComm fails with ProtocolMismatch for every type
\* URI that names another protocol name or version, whatever its type segment
C11_ProtocolMismatchAnyURI ==
    \A c \in Calls : OtherProtocol(c) => tasks[c].err = "ERROR_CANT_HANDLE_PROTOCOL"

\* C11 amended: decryptDIDComm fails with ProtocolMismatch for every type URI
\* whose name and type are written over [a-z0-9._-] and whose version over
\* [0-9.] and that names another protocol name or version, whether or not the
\* type segment is a known type
C11_ProtocolMismatch ==
    \A c \in Calls :
        OtherProtocol(c) /\ InPattern(TypeURI(c)) => tasks[c].err = "ERROR_CANT_HANDLE_PROTOCOL"

\* a known type under the right name and another version was refused
C11_Witness ==
    \E c \in Calls :
        /\ OtherProtocol(c) /\ InPattern(TypeURI(c))
        /\ UriName(TypeURI(c)) = "kilt-messaging"
        /\ UriVersion(TypeURI(c)) = "1.0"
        /\ UriType(TypeURI(c)) = "request-terms"
        /\ tasks[c].err = "ERROR_CANT_HANDLE_PROTOCOL"

\* the sixteen values of MessageBodyType
SixteenTypes ==
    { "request-terms", "submit-terms", "reject-terms", "initiate-attestation",
      "request-attestation-for-claim", "submit-attestation-for-claim",
      "reject-attestation-for-claim", "request-claims-for-ctypes",
      "submit-claims-for-ctypes-classic", "submit-claims-for-ctypes-pe",
      "accept-claims-for-ctypes", "reject-claims-for-ctypes",
      "request-accept-delegation", "submit-accept-delegation",
      "reject-accept-delegation", "inform-create-delegation" }

\* the type URI of slot c names this protocol and version and no known type
ForeignType(c) ==
    /\ Unpacked(c)
    /\ HasTypeString(c)
    /\ FourPart(TypeURI(c))
    /\ UriName(TypeURI(c)) = "kilt-messaging"
    /\ UriVersion(TypeURI(c)) = "0.19"
    /\ UriType(TypeURI(c)) \notin SixteenTypes

\* C12 as stated: decryptDIDComm fails with UnknownMessageType for every type
\* URI with the right name and version and a type segment outside the 16 values
C12_UnknownTypeAnySegment ==
    \A c \in Calls : ForeignType(c) => tasks[c].err = "unknown message type"

\* C12 amended: decryptDIDComm fails with UnknownMessageType for every type
\* URI with the right name and version whose type segment is written over
\* [a-z0-9._-] and is none of the 16 values
C12_UnknownType ==
    \A c \in Calls :
        ForeignType(c) /\ InPattern(TypeURI(c)) => tasks[c].err = "unknown message type"

\* the type 'foo' under the right name and version was refused as unknown
C12_Witness ==
    \E c \in Calls :
        /\ ForeignType(c) /\ InPattern(TypeURI(c))
        /\ UriType(TypeURI(c)) = "foo"
        /\ tasks[c].err = "unknown message type"
        /\ tasks[c].out = NoMessage

\* the packed text is JSON
IsJSON(text) == "obj" \in DOMAIN text \/ text \in {Lit("null"), Lit("42")}

\* the packed text of slot c is JSON and has no '@type', or one that is no
\* string, or one that does not parse into the four parts
NoTypeURI(c) ==
    /\ Unpacked(c)
    /\ IsJSON(PackedText(c))
    /\ \/ ~HasTypeString(c)
       \/ ~FourPart(TypeURI(c))
       \/ ~InPattern(TypeURI(c))

\* C13: decryptDIDComm fails with 'no or invalid @type URI in message' when
\* '@type' is absent, no string or does not parse, and returns no message
C13_MissingOrInvalidTypeURI ==
    \A c \in Calls :
        NoTypeURI(c) =>
            /\ tasks[c].err = "no or invalid @type URI in message"
            /\ tasks[c].out = NoMessage

\* slot g holds a settled getDIDComm and slot d a settled decryptDIDComm of
\* the message it resolved to, called by one of its recipients
RoundTrip(g, d) ==
    /\ tasks[g].pc = "done" /\ tasks[g].op = "getDIDComm"
    /\ tasks[d].pc = "done" /\ tasks[d].op = "decryptDIDComm"
    /\ tasks[d].arg.message = tasks[g].out
    /\ \E i \in DOMAIN tasks[g].arg.recipients :
           tasks[g].arg.recipients[i].address = Address(tasks[d].arg.recipient)

\* C14: decryptDIDComm of what getDIDComm(recipients, sender) resolved to, by
\* a recipient r of the list, returns the type, content and createdAt of the
\* Message, the sender's box public key, the address of the sender's signing
\* key and the address of r's signing key
C14_SecureRoundTrip ==
    \A g \in Calls, d \in Calls :
        RoundTrip(g, d) =>
            /\ tasks[d].err = ""
            /\ tasks[d].out.body.type = tasks[g].arg.m.body.type
            /\ tasks[d].out.body.content = tasks[g].arg.m.body.content
            /\ tasks[d].out.createdAt = tasks[g].arg.m.createdAt
            /\ tasks[d].out.senderBoxPublicKey = [bpk |-> tasks[g].arg.sender]
            /\ tasks[d].out.senderAddress = "5" \o tasks[g].arg.sender
            /\ tasks[d].out.receiverAddress = "5" \o tasks[d].arg.recipient

\* a Message constructed by bob at a later time was sent by alice to two
\* recipients without repudiation and the first of them read it
C14_Witness ==
    \E g \in Calls, d \in Calls :
        /\ RoundTrip(g, d)
        /\ tasks[g].arg.m.senderAddress = "5bob"
        /\ tasks[g].arg.m.createdAt = 10
        /\ tasks[g].arg.m.body.type = "submit-claims-for-ctypes-classic"
        /\ tasks[g].arg.sender = "alice"
        /\ ~tasks[g].arg.repudiable
        /\ Len(tasks[g].arg.recipients) = 2
        /\ tasks[d].arg.recipient = "alice"
        /\ tasks[d].out.createdAt = 10
        /\ tasks[d].out.senderAddress = "5alice"

\* the step is one of the 1:1 messaging core and leaves op in res
CoreStep(op) ==
    /\ tasks' = tasks /\ packed' = packed /\ didcomm' = didcomm
    /\ res'.op = op

\* the step is one of a getDIDComm call
GetDIDCommStep == \E c \in Calls : tasks'[c] # tasks[c] /\ tasks'[c].op = "getDIDComm"

\* the steps of the constructor, of encrypt and of getDIDComm leave the
\* messageId of every Message as it was, and a new Message has none
NeverAssigned ==
    CoreStep("new Message") \/ CoreStep("encrypt") \/ GetDIDCommStep =>
        /\ \A i \in DOMAIN msgs : msgs'[i].messageId = msgs[i].messageId
        /\ Len(msgs') > Len(msgs) => msgs'[Len(msgs')].messageId = "<undefined>"

\* the '@id' getDIDComm wrote in slot c
EnvelopeId(c) == tasks[c].locals.messageBody["@id"].str

\* the identifiers uuid() can have minted
Minted == {uuid(n) : n \in 0..MaxUuids}

\* C15 as stated: constructor, encrypt and getDIDComm never assign messageId,
\* encrypt returns the caller's value, and '@id' is a minted identifier only
\* when messageId is absent
C15_MintedOnlyWhenAbsent ==
    [][ /\ NeverAssigned
        /\ (res.op = "encrypt" => res.out.messageId = res.arg.messageId)'
        /\ (\A c \in Calls :
               tasks[c].op = "getDIDComm" /\ tasks[c].arg.m.messageId # "<undefined>"
                   => EnvelopeId(c) = tasks[c].arg.m.messageId)' ]_vars

\* C15 amended: constructor, encrypt and getDIDComm never assign messageId,
\* encrypt returns the caller's value, and '@id' is the messageId unless that
\* is absent or the empty string, and a minted identifier then
C15_MessageIdCallerSupplied ==
    [][ /\ NeverAssigned
        /\ (res.op = "encrypt" => res.out.messageId = res.arg.messageId)'
        /\ (\A c \in Calls :
               tasks[c].op = "getDIDComm" =>
                   IF tasks[c].arg.m.messageId \in {"<undefined>", ""}
                   THEN EnvelopeId(c) \in Minted /\ EnvelopeId(c) \notin {"<undefined>", ""}
                   ELSE EnvelopeId(c) = tasks[c].arg.m.messageId)' ]_vars

\* encrypt returned the identifier the caller had set and getDIDComm then
\* wrote it as '@id'
C15_Witness ==
    /\ res.op = "encrypt"
    /\ res.out.messageId = "m1"
    /\ \E c \in Calls :
           /\ tasks[c].op = "getDIDComm"
           /\ tasks[c].arg.m.messageId = "m1"
           /\ EnvelopeId(c) = "m1"
           /\ msgs[1].messageId = "m1"

\* the call of slot c has started a pack or an unpack
EngineUsed(c) == tasks[c].pc \in {"awaitUnpack", "done"}

\* the call of slot c is waiting for a promise
Pending(c) == tasks[c].pc \in {"awaitReady", "awaitUnpack"}

KeysOf(recipients) == {[spk |-> id] : id \in {i \in Ids : \E k \in DOMAIN recipients : recipients[k].address = "5" \o i}}

\* the settled decryptDIDComm of slot c has the outcome its own arguments
\* determine: a Message read back for a recipient of the packed message, a
\* rejection of unpackMessage for anybody else
DecryptDIDCommAlone(c) ==
    IF [spk |-> tasks[c].arg.recipient] \in tasks[c].arg.message.recipients
    THEN /\ tasks[c].err = ""
         /\ tasks[c].out.body = [content |-> [cTypeHash |-> "0xabc"], type |-> "request-terms"]
         /\ tasks[c].out.createdAt = 9
         /\ tasks[c].out.receiverAddress = "5" \o tasks[c].arg.recipient
         /\ tasks[c].out.senderAddress = "5" \o tasks[c].arg.message.senderKey.spk
    ELSE /\ tasks[c].err = "unpackMessage rejected"
         /\ tasks[c].out = NoMessage

\* the settled getDIDComm of slot c resolved to a message for its own
\* recipients under its own sender's key
GetDIDCommAlone(c) ==
    /\ tasks[c].err = ""
    /\ tasks[c].out.recipients = KeysOf(tasks[c].arg.recipients)
    /\ tasks[c].out.senderKey = [spk |-> tasks[c].arg.sender]
    /\ tasks[c].out.sealed.obj.content = <<Lit("cTypeHash:"), Lit("0xabc")>>

C18_KnownExactly ==
    res.op = "isKnownMessageType" => (res.out.known <=> res.arg.type \in SixteenTypes)

\* the member name REQUEST_TERMS was asked about and is not known
C18_Witness ==
    /\ res.op = "isKnownMessageType"
    /\ res.arg.type = "REQUEST_TERMS"
    /\ ~res.out.known

\* the calls of getNonce for the account of call n that were made before it
EarlierCalls(n) == {d \in 1..(n - 1) : chain.calls[d] = chain.calls[n]}

\* the calls of getNonce made for an account
CallsFor(address) == {n \in DOMAIN chain.calls : chain.calls[n] = address}

\* C19: the i-th call of getNonce for an account (i = 0..n-1), made without
\* awaiting the earlier ones, resolves to k+i where k is the nonce stored at
\* first; once all n calls have resolved the stored nonce is k+n; the calls
\* for another account change neither
C19_NoGapsNoDuplicates ==
    /\ \A n \in DOMAIN chain.resolved :
          chain.resolved[n] = chain.initial[chain.calls[n]] + Cardinality(EarlierCalls(n))
    /\ chain.queue = <<>> =>
          \A address \in DOMAIN chain.accountNonces :
             chain.accountNonces[address]
                = chain.initial[address] + Cardinality(CallsFor(address))

\* calls for two accounts, made in alternation while earlier ones were still
\* queued, have all resolved, from a stored nonce other than 0
C19_Witness ==
    /\ Len(chain.calls) = MaxNonceCalls
    /\ chain.queue = <<>>
    /\ DOMAIN chain.resolved = DOMAIN chain.calls
    /\ \A n \in 1..(MaxNonceCalls - 1) : chain.calls[n] # chain.calls[n + 1]
    /\ \E address \in DOMAIN chain.initial : chain.initial[address] > 0
    /\ \E address \in DOMAIN chain.initial : Cardinality(CallsFor(address)) > 1

\* a MessageBody: an object with a type among the 16 kinds and a content
WellFormedBody(body) ==
    /\ "type" \in DOMAIN body
    /\ body.type \in SixteenTypes
    /\ "content" \in DOMAIN body

\* C20: a Message that decrypt returns has a well-formed MessageBody, and a
\* payload that is JSON but no well-formed MessageBody is refused with
\* ERROR_PARSING_MESSAGE
C20_WellFormedBody ==
    res.op = "decrypt" =>
        LET e == res.arg.encrypted
            decoded == decryptAsymmetricAsStr(res.arg.receiver,
                           [box |-> e.message, nonce |-> e.nonce], e.senderBoxPublicKey)
            parsed == JSONparse(decoded.str)
        IN  /\ res.err = "" => WellFormedBody(res.out.body)
            /\ (/\ res.err \notin {"ERROR_NONCE_HASH_INVALID", "ERROR_SIGNATURE_UNVERIFIABLE"}
                /\ decoded.ok
                /\ parsed.ok
                /\ ~WellFormedBody(parsed.value))
                   => res.err = "ERROR_PARSING_MESSAGE"

\* the owners of the items of an array of claims or attested claims
ItemOwners(list) ==
    {IF "request" \in DOMAIN list.items[i] THEN list.items[i].request.claim.owner
                                            ELSE list.items[i].owner : i \in DOMAIN list.items}

\* the owners a claim object carries
ClaimOwners(claim) == IF "owner" \in DOMAIN claim THEN {claim.owner} ELSE {}

\* every owner embedded in the content of a body
EmbeddedOwners(body) ==
    LET c == body.content
    IN  (IF "owner" \in DOMAIN c THEN {c.owner} ELSE {})
        \cup (IF "claim" \in DOMAIN c THEN ClaimOwners(c.claim) ELSE {})
        \cup (IF "legitimations" \in DOMAIN c THEN ItemOwners(c.legitimations) ELSE {})
        \cup (IF "requestForAttestation" \in DOMAIN c THEN ClaimOwners(c.requestForAttestation.claim) ELSE {})
        \cup (IF "prerequisiteClaims" \in DOMAIN c THEN ItemOwners(c.prerequisiteClaims) ELSE {})
        \cup (IF "attestation" \in DOMAIN c THEN ClaimOwners(c.attestation) ELSE {})
        \cup (IF "items" \in DOMAIN c THEN ItemOwners(c) ELSE {})

\* C21: ensureOwnerIsSender fails with ERROR_IDENTITY_MISMATCH for a message
\* of any kind whose content embeds an owner other than senderAddress
C21_EveryEmbeddedOwner ==
    (/\ res.op = "ensureOwnerIsSender"
     /\ EmbeddedOwners(res.arg.body) \ {res.arg.senderAddress} # {})
        => res.err = "ERROR_IDENTITY_MISMATCH"

\* C22: an envelope that passes the hash comparison of ensureHashAndSignature
\* with the hash of the envelope encrypt() returned has the message, the nonce
\* and the createdAt of that envelope
C22_HashBindsEachField ==
    (/\ res.op = "ensureHashAndSignature"
     /\ orig.by = "encrypt"
     /\ HashMatches(orig.envelope)
     /\ res.arg.encrypted.hash = orig.envelope.hash
     /\ res.err # "ERROR_NONCE_HASH_INVALID")
        => /\ res.arg.encrypted.message = orig.envelope.message
           /\ res.arg.encrypted.nonce = orig.envelope.nonce
           /\ res.arg.encrypted.createdAt = orig.envelope.createdAt

\* C23: a Message that decrypt returns names as its sender the identity that
\* produced the ciphertext; decrypt does not succeed on an envelope whose
\* senderAddress and signature over the unchanged hash were replaced by those
\* of another identity
C23_SenderAuthentic ==
    (res.op = "decrypt" /\ res.err = "" /\ orig.by # "")
        => /\ res.arg.encrypted.message = orig.envelope.message
           /\ res.out.senderAddress = orig.envelope.senderAddress

\* the fields of a Message or an envelope that are computed at construction
ConstructedFields ==
    {"createdAt", "receiverAddress", "senderAddress", "senderBoxPublicKey",
     "message", "nonce", "hash", "signature"}

\* e carries what the constructor computed for the Message m sent to bob
AsConstructed(e, m) ==
    /\ \A f \in ConstructedFields : e[f] = m[f]
    /\ HashMatches(e)
    /\ SignedBy(e, m.senderAddress)
    /\ LET decoded == decryptAsymmetricAsStr("bob", [box |-> e.message, nonce |-> e.nonce],
                                              e.senderBoxPublicKey)
       IN  decoded.ok /\ decoded.str = JSONstringify(m.body)

\* C24 as stated: a step of encrypt or of getDIDComm leaves every field of
\* every Message as it was; the envelope encrypt returns carries the message,
\* nonce, hash and signature computed at construction, and equals the envelope
\* the encrypt before it returned
C24_RepeatedEncryptEqual ==
    [][ /\ (CoreStep("encrypt") \/ GetDIDCommStep) => msgs' = msgs
        /\ CoreStep("encrypt") =>
              /\ AsConstructed(res'.out, msgs[1])
              /\ orig.by = "encrypt" => res'.out = orig.envelope ]_vars

\* C24 amended: a step of encrypt or of getDIDComm leaves every field of
\* every Message as it was; the envelope encrypt returns carries the message,
\* nonce, hash and signature computed at construction and the messageId and
\* receivedAt the Message has now; it agrees with the envelope the encrypt
\* before it returned in every field computed at construction, and equals it
\* when the caller assigned neither messageId nor receivedAt in between
C24_ImmutableAfterConstruction ==
    [][ /\ (CoreStep("encrypt") \/ GetDIDCommStep) => msgs' = msgs
        /\ CoreStep("encrypt") =>
              /\ AsConstructed(res'.out, msgs[1])
              /\ res'.out.messageId = msgs[1].messageId
              /\ res'.out.receivedAt = msgs[1].receivedAt
              /\ orig.by = "encrypt" =>
                    /\ \A f \in ConstructedFields : res'.out[f] = orig.envelope[f]
                    /\ (/\ orig.envelope.messageId = msgs[1].messageId
                        /\ orig.envelope.receivedAt = msgs[1].receivedAt)
                           => res'.out = orig.envelope ]_vars

\* encrypt returned the envelope of a Message whose messageId and receivedAt
\* the caller has assigned and on which a getDIDComm call has resolved
C24_Witness ==
    /\ res.op = "encrypt"
    /\ orig.by = "encrypt"
    /\ res.out = orig.envelope
    /\ res.out.messageId = "m1"
    /\ res.out.receivedAt # NoTime
    /\ AsConstructed(res.out, msgs[1])
    /\ \E c \in Calls : tasks[c].op = "getDIDComm" /\ tasks[c].pc = "done" /\ tasks[c].arg.m = msgs[1]

\* the routing fields an envelope and a Message share
RoutingFields ==
    {"createdAt", "senderAddress", "receiverAddress", "senderBoxPublicKey", "messageId", "receivedAt"}

\* C25: a call of decrypt leaves the envelope it was given as it was; when it
\* succeeds the Message it returns has the createdAt, senderAddress,
\* receiverAddress, senderBoxPublicKey, messageId and receivedAt of the
\* envelope, and when it fails it returns nothing
C25_DecryptFrame ==
    [][ (res'.op = "decrypt" /\ res' # res) =>
            /\ env' = env
            /\ res'.arg.encrypted = env
            /\ IF res'.err = ""
               THEN /\ \A f \in RoutingFields : res'.out[f] = env[f]
                    /\ "body" \in DOMAIN res'.out
               ELSE res'.out = NoMessage ]_vars

\* decrypt by bob returned a Message for an envelope alice had sent him
C25_Witness ==
    /\ res.op = "decrypt"
    /\ res.err = ""
    /\ res.arg.encrypted = env
    /\ env.senderAddress = Address("alice")
    /\ \A f \in RoutingFields : res.out[f] = env[f]

\* the last call was one of the three encoders of DID operations
EncodedDid == res.op \in {"encodeDidCreate", "encodeDidUpdate", "encodeDidDelete"}

\* the name of the operation type an encoder asks the registry for
OperationType ==
    [encodeDidCreate |-> "DidCreationOperation", encodeDidUpdate |-> "DidUpdateOperation",
     encodeDidDelete |-> "DidDeletionOperation"]

\* getIdentifierFromDid undoes getDidFromIdentifier and refuses every string
\* that does not start with did:kilt:
IdentifierRoundTrip ==
    res.op = "getIdentifierFromDid" =>
        /\ \A x \in Identifiers :
              res.arg.did = KILT_DID_PREFIX \o x => res.err = "" /\ res.out = Str(x)
        /\ ~startsWith(res.arg.did, KILT_DID_PREFIX)
              => res.err = "ERROR_INVALID_DID_PREFIX" /\ res.out = NoMessage

\* C26 as stated: getIdentifierFromDid(getDidFromIdentifier(x)) = x;
\* getIdentifierFromDid fails with ERROR_INVALID_DID_PREFIX for every input
\* without the prefix, and so do encodeDidCreate, encodeDidUpdate and
\* encodeDidDelete, which return no operation then
C26_InvalidPrefixAlways ==
    /\ IdentifierRoundTrip
    /\ (EncodedDid /\ ~startsWith(res.arg.did, KILT_DID_PREFIX))
          => res.err = "ERROR_INVALID_DID_PREFIX" /\ res.out = NoMessage

\* C26 amended: as above, but encodeDidDelete fails with
\* ERROR_INVALID_DID_PREFIX when the registry knows DidDeletionOperation, and
\* with the error of the registry, still returning no operation, when not
C26_DidRoundTrip ==
    /\ IdentifierRoundTrip
    /\ (EncodedDid /\ ~startsWith(res.arg.did, KILT_DID_PREFIX)) =>
          /\ res.out = NoMessage
          /\ res.err # ""
          /\ (res.op # "encodeDidDelete" \/ OperationType[res.op] \in res.arg.typeRegistry)
                => res.err = "ERROR_INVALID_DID_PREFIX"

\* encodeDidDelete refused a DID that lacks the last colon of the prefix
C26_Witness ==
    /\ res.op = "encodeDidDelete"
    /\ res.arg.did = <<"d", "i", "d", ":", "k", "i", "l", "t", "5">>
    /\ "DidDeletionOperation" \in res.arg.typeRegistry
    /\ res.err = "ERROR_INVALID_DID_PREFIX"
    /\ res.out = NoMessage

\* what the claim has a key of keysToUpdate encode as
KeyIntent(keys, name) ==
    IF name \notin DOMAIN keys.obj THEN Obj([Ignore |-> null])
    ELSE IF keys.obj[name] = null THEN Obj([Delete |-> null])
    ELSE Obj([Change |-> Obj(keys.obj[name].obj.type.str :> keys.obj[name].obj.publicKey)])

\* the key name of keysToUpdate is absent or null
NotGiven(keys, name) == name \notin DOMAIN keys.obj \/ keys.obj[name] = null

\* C27: encodeDidUpdate encodes the attestation and the delegation key as
\* Change(key) for a key, Delete for null and Ignore for undefined; an absent
\* or null authentication key as null and an absent or null encryption key
\* as []
C27_KeyIntents ==
    (res.op = "encodeDidUpdate" /\ res.err = "") =>
        LET keys == res.arg.keysToUpdate
            raw  == res.out.raw
        IN  /\ raw.newAttestationKey = KeyIntent(keys, "attestation")
            /\ raw.newDelegationKey = KeyIntent(keys, "delegation")
            /\ NotGiven(keys, "authentication") => raw.newAuthKey = null
            /\ NotGiven(keys, "encryption") => raw.newKeyAgreementKey = Arr(<<>>)

\* an update that changes the attestation key, deletes the delegation key,
\* does not mention the authentication key and has null for the encryption key
C27_Witness ==
    /\ res.op = "encodeDidUpdate"
    /\ res.err = ""
    /\ DOMAIN res.arg.keysToUpdate.obj = {"attestation", "delegation", "encryption"}
    /\ res.arg.keysToUpdate.obj.encryption = null
    /\ res.out.raw.newAttestationKey = Obj([Change |-> Obj("ed25519" :> U8a("attestation"))])
    /\ res.out.raw.newDelegationKey = Obj([Delete |-> null])
    /\ res.out.raw.newAuthKey = null
    /\ res.out.raw.newKeyAgreementKey = Arr(<<>>)

\* the first of http, ftp, ipfs that url starts with, "" when there is none
FirstPrefix(url) ==
    IF Len(url) >= 4 /\ SubSeq(url, 1, 4) = <<"h", "t", "t", "p">> THEN "http"
    ELSE IF Len(url) >= 3 /\ SubSeq(url, 1, 3) = <<"f", "t", "p">> THEN "ftp"
    ELSE IF Len(url) >= 4 /\ SubSeq(url, 1, 4) = <<"i", "p", "f", "s">> THEN "ipfs"
    ELSE ""

\* C28: encodeEndpointUrl accepts a url exactly when it starts with http, ftp
\* or ipfs; it then returns an object with one key, that prefix, holding the
\* url unchanged as payload, and fails with its error for every other url
C28_EndpointUrl ==
    res.op = "encodeEndpointUrl" =>
        IF FirstPrefix(res.arg.url) # ""
        THEN /\ res.err = ""
             /\ DOMAIN res.out.obj = {FirstPrefix(res.arg.url)}
             /\ res.out.obj[FirstPrefix(res.arg.url)] = [payload |-> res.arg.url]
        ELSE /\ res.err = "only endpoint urls starting with http/https, ftp, and ipfs are accepted"
             /\ res.out = NoMessage

\* an https url was encoded under the key http
C28_Witness ==
    /\ res.op = "encodeEndpointUrl"
    /\ res.arg.url = <<"h", "t", "t", "p", "s", ":", "/", "/", "a">>
    /\ res.err = ""
    /\ DOMAIN res.out.obj = {"http"}
    /\ res.out.obj["http"].payload = <<"h", "t", "t", "p", "s", ":", "/", "/", "a">>

\* v is an object with a Uint8Array publicKey and a string type
IsKeyPairShaped(v) ==
    /\ "obj" \in DOMAIN v
    /\ "publicKey" \in DOMAIN v.obj /\ "u8a" \in DOMAIN v.obj.publicKey
    /\ "type" \in DOMAIN v.obj /\ "str" \in DOMAIN v.obj.type

\* C30: isIKeyPair returns a boolean for every value and never throws, and
\* returns true exactly for an object with a Uint8Array publicKey and a
\* string type
C30_TotalPredicate ==
    res.op = "isIKeyPair" =>
        /\ res.err = ""
        /\ "bool" \in DOMAIN res.out
        /\ res.out.bool <=> IsKeyPairShaped(res.arg.keypair)

\* the fetched records that hold a node, in the order they were fetched
HoldingNode(queryResults) == SelectSeq(queryResults, LAMBDA c : c.codec.raw # "empty")

\* C29: getChildren returns one node for each fetched record that decodes to
\* a node, in the order of the fetched records, each with the id under which
\* it was fetched, and no null entry
C29_ChildrenOfRecords ==
    res.op = "getChildren" =>
        LET children == res.out.items
            fetched  == HoldingNode(res.arg.queryResults)
        IN  /\ res.err = ""
            /\ Len(children) = Len(fetched)
            /\ \A k \in DOMAIN children :
                  /\ ~IsNull(children[k])
                  /\ children[k].id = fetched[k].id
                  /\ children[k].account = Address(fetched[k].codec.raw)

\* of three fetched records the second was empty: the two nodes are returned
\* in order with their ids
C29_Witness ==
    /\ res.op = "getChildren"
    /\ Len(res.arg.queryResults) = 3
    /\ res.arg.queryResults[1] = [id |-> "0xc2", codec |-> [raw |-> "bob"]]
    /\ res.arg.queryResults[2].codec.raw = "empty"
    /\ res.arg.queryResults[3] = [id |-> "0xc1", codec |-> [raw |-> "alice"]]
    /\ Len(res.out.items) = 2
    /\ res.out.items[1].id = "0xc2"
    /\ res.out.items[2].id = "0xc1"

====
